---- MODULE Spec2Model ----
(***************************************************************************)
(* A model of the llm-proxy gateway: the sliding-window rate limiter, the  *)
(* request validator, the middleware/handler pipeline of POST /proxy and   *)
(* the SSE event generator of POST /proxy/stream.                          *)
(*                                                                         *)
(* Each component has its own specification over the shared variables:     *)
(*   SpecRL    the rate limiter, one attempt at a time                      *)
(*   SpecConc  the rate limiter under interleaved in-flight requests        *)
(*   SpecGW    one request through the middleware stack and the handler     *)
(*   SpecStream the event generator of the streaming endpoint               *)
(***************************************************************************)
EXTENDS Integers, Sequences, FiniteSets, TLC

VARIABLES
    \* ---- rate limiter (app/middleware/rate_limit.py)
    enabled,          \* RATE_LIMIT_ENABLED
    clock,            \* time.time()
    buckets,          \* _rate_limit_buckets: key -> deque of timestamps
    last_cleanup_ts,  \* _last_cleanup_ts
    admitted,         \* history: key -> the timestamps admitted during the
                      \*          last window (those not older than clock - W)
    denied_since,     \* history: keys denied since their last admission
    last,             \* history: the attempt answered last at this clock value
    \* ---- in-flight requests (cooperative scheduling)
    pc,               \* position of each request's coroutine
    running,          \* the coroutine that holds the event loop, or 0
    rreq,             \* the request each coroutine serves
    rnow,             \* its local `now`
    rdeny,            \* its local outcome of the capacity check
    free_seen,        \* history: free slots of its key when it was received
    \* ---- one request through app.main and app.routers.proxy
    gw_pc,            \* the layer that handles the request next
    gw_http,          \* the inbound request: path, headers, body (a ChatRequest)
    gw_req,           \* the ChatRequest object as the handler holds it
    gw_rid,           \* request.state.request_id
    gw_provider,      \* the provider injected or chosen
    gw_exc,           \* the exception the provider raised
    gw_resp,          \* the response sent
    gw_log,           \* history: the steps taken, in order
    gw_seen,          \* history: what the provider was called with
    gw_metrics,       \* provider_requests_total: the outcomes reported
    \* ---- event_gen of POST /proxy/stream
    st_pc,            \* position of the generator
    st_rid,           \* http_request.state.request_id
    st_frags,         \* history: the fragments the provider yielded
    st_end,           \* history: how the provider's stream ended
    st_pending,       \* the events the current branch has still to yield
    st_events,        \* the events sent to the client
    st_status,        \* the status of the StreamingResponse
    st_outcome,       \* the local `outcome`
    st_metrics,       \* provider_requests_total: the outcomes reported
    \* provider registry (app/providers/registry.py)
    reg_entries,      \* history: the entries MODEL_PROVIDER_MAP was written from
    reg_map,          \* os.getenv("MODEL_PROVIDER_MAP")
    reg_default,      \* os.getenv("LLM_PROVIDER"), <<>> when unset
    reg_cache,        \* _provider_cache
    reg_built,        \* history: every provider instance constructed
    reg_pend,         \* per caller: the resolution it is in the middle of
    reg_mid,          \* the caller that is between the check and the insert
    reg_done,         \* history: the number of resolutions finished
    reg_last,         \* history: the last resolution and its result
    reg_returned,     \* history: every (name, instance) a resolution returned
    reg_parsed,       \* the mapping parse_model_provider_map returned, <<>> before the call
    \* OpenAICompatibleProvider (app/providers/openai_compat.py)
    ad_pc,            \* position of chat / chat_stream
    ad_op,            \* "chat" or "chat_stream"
    ad_model,         \* request.model
    ad_status,        \* response.status_code
    ad_body,          \* the body of an error response
    ad_retry_after,   \* response.headers.get("Retry-After"), <<>> when absent
    ad_lines,         \* the lines response.aiter_lines() has still to give
    ad_seen,          \* history: the lines the loop has taken
    ad_out,           \* history: the fragments yielded
    ad_exc,           \* what the call raised
    ad_returned,      \* whether the call returned (a ChatResponse, or the end of the stream)
    ad_conn,          \* history: whether the connection failed
    ad_provider,      \* the class of the provider that is called
    ad_auth,          \* the authorization argument, <<>> for None
    ad_env_key,       \* self.env_api_key, <<>> when OPENAI_COMPAT_API_KEY is unset
    ad_headers,       \* the Authorization header of the request sent, <<>> when none
    ad_data,          \* response.json() of a completion
    ad_resp,          \* the ChatResponse returned, <<>> when none
    ad_open,          \* whether the HTTP client (and the streamed response) is open
    ad_cancel,        \* history: the lines taken and fragments yielded when
                      \* the call was cancelled, <<>> when it was not
    ad_calls,         \* history: the number of calls made
    \* API-key gate (app/middleware/auth_api_key.py)
    au_pc,            \* position of the request in the gate
    au_env,           \* API_KEY_AUTH_ENABLED and API_KEYS
    au_req,           \* the request: its x-api-key, x-request-id and state
    au_resp,          \* the response sent
    au_called,        \* history: whether call_next was called
    \* Concurrent streamed responses (app/routers/proxy.py)
    ss_streams,       \* per response: the position of its event_gen, its provider's
                      \* fragments and end, its pending events, the events sent
    ss_metrics,       \* the outcomes counted in provider_requests_total, shared
    \* The limiter of app/main.py, given the requests the limiter of
    \* app/middleware/rate_limit.py is given
    main_buckets,     \* _rate_limit_buckets of app/main.py
    main_status       \* the status with which it answered the last request, 0 for none

rlVars   == <<enabled, clock, buckets, last_cleanup_ts, admitted, denied_since, last>>
concVars == <<pc, running, rreq, rnow, rdeny, free_seen>>
gwVars   == <<gw_pc, gw_http, gw_req, gw_rid, gw_provider, gw_exc, gw_resp,
              gw_log, gw_seen, gw_metrics>>
stVars   == <<st_pc, st_rid, st_frags, st_end, st_pending, st_events, st_status,
              st_outcome, st_metrics>>
regVars  == <<reg_entries, reg_map, reg_default, reg_cache, reg_built, reg_pend,
              reg_mid, reg_done, reg_last, reg_returned, reg_parsed>>
adVars   == <<ad_pc, ad_op, ad_model, ad_status, ad_body, ad_retry_after, ad_lines,
              ad_seen, ad_out, ad_exc, ad_returned, ad_conn, ad_provider, ad_auth,
              ad_env_key, ad_headers, ad_data, ad_resp, ad_open, ad_cancel,
              ad_calls>>
auVars   == <<au_pc, au_env, au_req, au_resp, au_called>>
ssVars   == <<ss_streams, ss_metrics>>
mainVars == <<main_buckets, main_status>>
extVars  == <<regVars, adVars, auVars, ssVars, mainVars>>
vars     == <<rlVars, concVars, gwVars, stVars, extVars>>

None == "None"

(***************************************************************************)
(* Configuration. The window, the capacity and the cleanup interval are    *)
(* read from the environment; the model fixes small values.                *)
(***************************************************************************)
RATE_LIMIT_WINDOW_SECONDS == 2
RATE_LIMIT_MAX_REQUESTS == 2
CLEANUP_INTERVAL_SECONDS == 3
MaxTicks == 5
NReq == 3
ConcMaxTicks == 3
\* time.time() when the process starts: far from the initial
\* _last_cleanup_ts of 0.0, so that the first request always sweeps.
Epoch == CLEANUP_INTERVAL_SECONDS + RATE_LIMIT_WINDOW_SECONDS + 1
Times == Epoch .. (Epoch + MaxTicks)

\* The headers and the peer address the limiter reads.
AuthValues == {None, "", "tok-a"}
HostValues == {None, "h1"}
AllRLRequests == [authorization : AuthValues, host : HostValues]
\* The callers of the limiter's specifications: two credentials behind one host.
RLRequests == {r \in AllRLRequests : r.host = "h1" /\ r.authorization # ""}

\* key = authorization or client host or "anonymous"
RateLimitKey(req) ==
    IF req.authorization # None /\ req.authorization # ""
    THEN req.authorization
    ELSE IF req.host # None /\ req.host # "" THEN req.host ELSE "anonymous"

Keys == {RateLimitKey(r) : r \in RLRequests}

\* while bucket and bucket[0] < window_start: bucket.popleft()
RECURSIVE PopExpired(_, _)
PopExpiredInclusive(bucket, window_start) ==
    SelectSeq(bucket, LAMBDA t : t > window_start)
PopExpired(bucket, window_start) ==
    IF bucket # <<>> /\ Head(bucket) < window_start
    THEN PopExpired(Tail(bucket), window_start)
    ELSE bucket

\* _maybe_cleanup(now, window_seconds): at most once per interval, prune every
\* bucket and drop the keys left empty.
MaybeCleanupDropAll(bk, lastts, now, window_seconds) ==
    IF now - lastts < CLEANUP_INTERVAL_SECONDS
    THEN [buckets |-> bk, last |-> lastts]
    ELSE [buckets |-> <<>>, last |-> now]
MaybeCleanupInclusive(bk, lastts, now, window_seconds) ==
    IF now - lastts < CLEANUP_INTERVAL_SECONDS
    THEN [buckets |-> bk, last |-> lastts]
    ELSE LET window_start == now - window_seconds
             pruned == [k \in DOMAIN bk |-> PopExpiredInclusive(bk[k], window_start)]
             keep == {k \in DOMAIN bk : pruned[k] # <<>>}
         IN  [buckets |-> [k \in keep |-> pruned[k]], last |-> now]
MaybeCleanup(bk, lastts, now, window_seconds) ==
    IF now - lastts < CLEANUP_INTERVAL_SECONDS
    THEN [buckets |-> bk, last |-> lastts]
    ELSE LET window_start == now - window_seconds
             pruned == [k \in DOMAIN bk |-> PopExpired(bk[k], window_start)]
             keep == {k \in DOMAIN bk : pruned[k] # <<>>}
         IN  [buckets |-> [k \in keep |-> pruned[k]], last |-> now]

\* _rate_limit_buckets[key] of a defaultdict(deque)
BucketOf(bk, key) == IF key \in DOMAIN bk THEN bk[key] ELSE <<>>
Put(bk, key, bucket) ==
    [k \in DOMAIN bk \cup {key} |-> IF k = key THEN bucket ELSE bk[k]]

\* len(bucket), the occupancy the capacity check reads
RECURSIVE TotalLen(_, _)
TotalLen(bk, ks) ==
    IF ks = {} THEN 0
    ELSE LET k == CHOOSE x \in ks : TRUE
         IN  Len(bk[k]) + TotalLen(bk, ks \ {k})
OccupancyGlobal(bk, key) == TotalLen(bk, DOMAIN bk)
Occupancy(bk, key) == Len(BucketOf(bk, key))

\* if len(bucket) >= RATE_LIMIT_MAX_REQUESTS
OverCapacityStrict(n) == n > RATE_LIMIT_MAX_REQUESTS
OverCapacity(n) == n >= RATE_LIMIT_MAX_REQUESTS

\* The denial branch returns before bucket.append(now).
OnDeniedRecord(bucket, now) == Append(bucket, now)
OnDenied(bucket, now) == bucket

\* Lines 47-59: now, window_start, cleanup, key, prune, capacity check.
LimiterCheck(bk, lastts, now, req) ==
    LET window_start == now - RATE_LIMIT_WINDOW_SECONDS
        c == MaybeCleanup(bk, lastts, now, RATE_LIMIT_WINDOW_SECONDS)
        key == RateLimitKey(req)
        pruned == Put(c.buckets, key, PopExpired(BucketOf(c.buckets, key), window_start))
    IN  [buckets |-> pruned, last |-> c.last, key |-> key,
         deny |-> OverCapacity(Occupancy(pruned, key))]

\* Lines 60-64: the 429 with Retry-After, or bucket.append(now) and call_next.
LimiterCommit(bk, key, now, deny) ==
    IF deny
    THEN [buckets |-> Put(bk, key, OnDenied(BucketOf(bk, key), now)),
          status |-> 429, retry_after |-> RATE_LIMIT_WINDOW_SECONDS]
    ELSE [buckets |-> Put(bk, key, Append(BucketOf(bk, key), now)),
          status |-> 200, retry_after |-> None]

\* rate_limit_middleware, lines 45-64, when the limiter is enabled.
RateLimit(bk, lastts, now, req) ==
    LET chk == LimiterCheck(bk, lastts, now, req)
        com == LimiterCommit(chk.buckets, chk.key, now, chk.deny)
    IN  [buckets |-> com.buckets, last |-> chk.last, key |-> chk.key,
         status |-> com.status, retry_after |-> com.retry_after]

NoAttempt == [key |-> None, now |-> 0, status |-> 0, retry_after |-> None,
              pre |-> <<>>, prior |-> <<>>, was_denied |-> FALSE]

\* The parts of the state a specification does not use stay as they are here.
ConcIdle ==
    /\ pc = <<>>
    /\ running = 0
    /\ rreq = <<>>
    /\ rnow = <<>>
    /\ rdeny = <<>>
    /\ free_seen = <<>>

GwIdle ==
    /\ gw_pc = "idle"
    /\ gw_http = <<>>
    /\ gw_req = <<>>
    /\ gw_rid = None
    /\ gw_provider = None
    /\ gw_exc = <<>>
    /\ gw_resp = <<>>
    /\ gw_log = <<>>
    /\ gw_seen = <<>>
    /\ gw_metrics = <<>>

StIdle ==
    /\ st_pc = "idle"
    /\ st_rid = None
    /\ st_frags = <<>>
    /\ st_end = <<>>
    /\ st_pending = <<>>
    /\ st_events = <<>>
    /\ st_status = 0
    /\ st_outcome = None
    /\ st_metrics = <<>>

RegIdle ==
    /\ reg_entries = <<>>
    /\ reg_map = <<>>
    /\ reg_default = <<>>
    /\ reg_cache = {}
    /\ reg_built = <<>>
    /\ reg_pend = <<>>
    /\ reg_mid = 0
    /\ reg_done = 0
    /\ reg_last = <<>>
    /\ reg_returned = {}
    /\ reg_parsed = <<>>

AdIdle ==
    /\ ad_pc = "idle"
    /\ ad_op = None
    /\ ad_model = <<>>
    /\ ad_status = 0
    /\ ad_body = <<>>
    /\ ad_retry_after = <<>>
    /\ ad_lines = <<>>
    /\ ad_seen = <<>>
    /\ ad_out = <<>>
    /\ ad_exc = <<>>
    /\ ad_returned = FALSE
    /\ ad_conn = FALSE
    /\ ad_provider = None
    /\ ad_auth = <<>>
    /\ ad_env_key = <<>>
    /\ ad_headers = <<>>
    /\ ad_data = <<>>
    /\ ad_resp = <<>>
    /\ ad_open = FALSE
    /\ ad_cancel = <<>>
    /\ ad_calls = 0

AuIdle ==
    /\ au_pc = "idle"
    /\ au_env = <<>>
    /\ au_req = <<>>
    /\ au_resp = <<>>
    /\ au_called = FALSE

SsIdle ==
    /\ ss_streams = <<>>
    /\ ss_metrics = <<>>

MainIdle ==
    /\ main_buckets = <<>>
    /\ main_status = 0

ExtIdle == RegIdle /\ AdIdle /\ AuIdle /\ SsIdle /\ MainIdle

RLInit ==
    /\ enabled \in BOOLEAN
    /\ clock = Epoch
    /\ buckets = <<>>
    /\ last_cleanup_ts = 0
    /\ admitted = [k \in Keys |-> <<>>]
    /\ denied_since = {}
    /\ last = NoAttempt
    /\ ConcIdle
    /\ GwIdle
    /\ StIdle
    /\ ExtIdle

\* Time passes.
TickTo(limit) ==
    /\ clock < Epoch + limit
    /\ clock' = clock + 1
    /\ admitted' = [k \in Keys |->
                       SelectSeq(admitted[k],
                                 LAMBDA t : t >= clock' - RATE_LIMIT_WINDOW_SECONDS)]
    /\ last' = NoAttempt
    /\ UNCHANGED <<enabled, buckets, last_cleanup_ts, denied_since>>
    /\ UNCHANGED <<concVars, gwVars, stVars, extVars>>

Tick == TickTo(MaxTicks)

\* One request reaches rate_limit_middleware (lines 37-64).
AttemptRL(req) ==
    LET key == RateLimitKey(req)
        r == RateLimit(buckets, last_cleanup_ts, clock, req)
    IN  /\ IF ~enabled
           THEN \* line 43-44: the limiter is bypassed and records nothing
                /\ UNCHANGED <<buckets, last_cleanup_ts, denied_since, admitted>>
                /\ last' = [key |-> key, now |-> clock, status |-> 200,
                            retry_after |-> None, pre |-> <<>>,
                            prior |-> <<>>, was_denied |-> FALSE]
           ELSE /\ buckets' = r.buckets
                /\ last_cleanup_ts' = r.last
                /\ admitted' = IF r.status = 200
                               THEN [admitted EXCEPT ![key] = Append(@, clock)]
                               ELSE admitted
                /\ denied_since' = IF r.status = 200
                                   THEN denied_since \ {key}
                                   ELSE denied_since \cup {key}
                /\ last' = [key |-> key, now |-> clock, status |-> r.status,
                            retry_after |-> r.retry_after,
                            pre |-> BucketOf(buckets, key),
                            prior |-> admitted[key],
                            was_denied |-> key \in denied_since]
        /\ UNCHANGED <<enabled, clock>>

Attempt(req) ==
    /\ AttemptRL(req)
    /\ UNCHANGED <<concVars, gwVars, stVars, extVars>>

RLNext ==
    \/ Tick
    \/ \E req \in RLRequests : Attempt(req)

SpecRL == RLInit /\ [][RLNext]_vars

(***************************************************************************)
(* Claims about the rate limiter, checked under SpecRL.                    *)
(*                                                                         *)
(* `last` is the attempt just answered: its key, its clock value, the      *)
(* answer, the key's bucket before the call (pre) and the key's admitted   *)
(* timestamps before the call (prior). `admitted` keeps the timestamps of  *)
(* the closed window [clock - W, clock]: more than C admissions inside     *)
(* some interval of length W would all lie in that window at the moment    *)
(* of the last of them.                                                    *)
(***************************************************************************)
CountIf(log, P(_)) == Cardinality({i \in DOMAIN log : P(log[i])})
Answered == enabled /\ last.key # None

\* C1: once C attempts of a key have been admitted, a further attempt of the
\* key made less than W after the first of them is denied with status 429
\* and Retry-After equal to W.
C1_DeniedWithinWindow ==
    (Answered /\ CountIf(last.prior, LAMBDA t : last.now - t < RATE_LIMIT_WINDOW_SECONDS)
                    >= RATE_LIMIT_MAX_REQUESTS)
    => (last.status = 429 /\ last.retry_after = RATE_LIMIT_WINDOW_SECONDS)

C1_Witness ==
    /\ Answered
    /\ CountIf(last.prior, LAMBDA t : last.now - t < RATE_LIMIT_WINDOW_SECONDS)
           >= RATE_LIMIT_MAX_REQUESTS
    /\ last.status = 429
    /\ last.retry_after = RATE_LIMIT_WINDOW_SECONDS

\* C2 as stated: the first attempt made once W has passed since the oldest
\* admission still recorded for the key is admitted.
C2_AdmittedOnceWindowPassed ==
    (Answered /\ last.pre # <<>>
              /\ last.now - Head(last.pre) >= RATE_LIMIT_WINDOW_SECONDS)
    => last.status = 200

\* C2 as amended: an attempt made MORE than W after the oldest admission
\* still recorded for the key is admitted, whatever number of denied attempts
\* were made in between; a denied attempt records no timestamp.
C2_AdmittedAfterWindow ==
    /\ (Answered /\ last.pre # <<>>
                 /\ last.now - Head(last.pre) > RATE_LIMIT_WINDOW_SECONDS)
       => last.status = 200
    /\ (Answered /\ last.status = 429)
       => /\ Len(BucketOf(buckets, last.key)) <= Len(last.pre)
          /\ admitted[last.key] = last.prior

C2_Witness ==
    /\ Answered
    /\ last.was_denied
    /\ Len(last.pre) = RATE_LIMIT_MAX_REQUESTS
    /\ last.now - Head(last.pre) > RATE_LIMIT_WINDOW_SECONDS
    /\ last.status = 200

\* C3: two keys never share a denial: an attempt of key k is denied exactly
\* when C timestamps admitted for k itself lie in the window, whatever was
\* attempted, admitted or denied for the other keys.
C3_DecisionFromOwnKey ==
    Answered =>
        (last.status = 429
            <=> CountIf(last.prior,
                        LAMBDA t : t >= last.now - RATE_LIMIT_WINDOW_SECONDS)
                    >= RATE_LIMIT_MAX_REQUESTS)

C3_Witness ==
    /\ Answered
    /\ last.status = 200
    /\ \E j \in Keys \ {last.key} :
          /\ j \in denied_since
          /\ Len(BucketOf(buckets, j)) = RATE_LIMIT_MAX_REQUESTS
          /\ CountIf(admitted[j], LAMBDA t : t >= clock - RATE_LIMIT_WINDOW_SECONDS)
                 = RATE_LIMIT_MAX_REQUESTS

\* C4: with a non-decreasing clock every bucket holds at most C timestamps,
\* and for every key at most C attempts are admitted inside any (closed)
\* interval of length W.
C4_WindowCapacity ==
    enabled =>
        /\ \A k \in DOMAIN buckets : Len(buckets[k]) <= RATE_LIMIT_MAX_REQUESTS
        /\ \A k \in Keys :
             \A t \in (Epoch - RATE_LIMIT_WINDOW_SECONDS) .. (Epoch + MaxTicks) :
                CountIf(admitted[k],
                        LAMBDA x : t <= x /\ x <= t + RATE_LIMIT_WINDOW_SECONDS)
                    <= RATE_LIMIT_MAX_REQUESTS

C4_Witness ==
    /\ enabled
    /\ \E k \in DOMAIN buckets :
          /\ Len(buckets[k]) = RATE_LIMIT_MAX_REQUESTS
          /\ Len(admitted[k]) = RATE_LIMIT_MAX_REQUESTS
          /\ k \in denied_since
          /\ clock - Head(buckets[k]) = RATE_LIMIT_WINDOW_SECONDS

(***************************************************************************)
(* The limiter under cooperative scheduling. Every request is served by    *)
(* one coroutine; a coroutine that holds the event loop keeps it until it  *)
(* reaches an await. rate_limit_middleware awaits only call_next: nothing  *)
(* is awaited between time.time() (line 47) and bucket.append (line 63).   *)
(***************************************************************************)
Reqs == 1 .. NReq

\* The positions at which a coroutine gives the event loop away: before it is
\* first scheduled, at `await call_next(request)`, and once it has returned.
SuspendsAlsoAfterCheck(at) == at \in {"idle", "recv", "checked", "call_next", "denied", "served"}
Suspends(at) == at \in {"idle", "recv", "call_next", "denied", "served"}

CanRun(p) == running = p \/ (running = 0 /\ Suspends(pc[p]))
Goto(p, at) ==
    /\ pc' = [pc EXCEPT ![p] = at]
    /\ running' = IF Suspends(at) THEN 0 ELSE p

FreeSlots(key) ==
    RATE_LIMIT_MAX_REQUESTS
      - CountIf(BucketOf(buckets, key),
                LAMBDA t : t >= clock - RATE_LIMIT_WINDOW_SECONDS)

ConcInit ==
    /\ enabled \in BOOLEAN
    /\ clock = Epoch
    /\ buckets = <<>>
    /\ last_cleanup_ts = 0
    /\ admitted = [k \in Keys |-> <<>>]
    /\ denied_since = {}
    /\ last = NoAttempt
    /\ pc = [p \in Reqs |-> "idle"]
    /\ running = 0
    /\ rreq = [p \in Reqs |-> [authorization |-> None, host |-> None]]
    /\ rnow = [p \in Reqs |-> 0]
    /\ rdeny = [p \in Reqs |-> FALSE]
    /\ free_seen = [p \in Reqs |-> 0]
    /\ GwIdle
    /\ StIdle
    /\ ExtIdle

\* The server accepts a request; its coroutine is not scheduled yet.
Receive(p, req) ==
    /\ pc[p] = "idle"
    /\ \A q \in Reqs : q < p => pc[q] # "idle"
    /\ running = 0
    /\ rreq' = [rreq EXCEPT ![p] = req]
    /\ free_seen' = [free_seen EXCEPT ![p] = FreeSlots(RateLimitKey(req))]
    /\ Goto(p, "recv")
    /\ UNCHANGED <<rnow, rdeny>>
    /\ UNCHANGED <<rlVars, gwVars, stVars, extVars>>

\* Lines 38-59: the enabled switch, now, the sweep, the prune and the check.
Check(p) ==
    /\ pc[p] = "recv"
    /\ CanRun(p)
    /\ IF ~enabled
       THEN /\ Goto(p, "call_next")
            /\ UNCHANGED <<buckets, last_cleanup_ts, rnow, rdeny>>
       ELSE LET chk == LimiterCheck(buckets, last_cleanup_ts, clock, rreq[p])
            IN  /\ buckets' = chk.buckets
                /\ last_cleanup_ts' = chk.last
                /\ rnow' = [rnow EXCEPT ![p] = clock]
                /\ rdeny' = [rdeny EXCEPT ![p] = chk.deny]
                /\ Goto(p, "checked")
    /\ UNCHANGED <<enabled, clock, admitted, denied_since, last, rreq, free_seen>>
    /\ UNCHANGED <<gwVars, stVars, extVars>>

\* Lines 60-64: return the 429, or append now and await call_next.
Commit(p) ==
    /\ pc[p] = "checked"
    /\ CanRun(p)
    /\ LET com == LimiterCommit(buckets, RateLimitKey(rreq[p]), rnow[p], rdeny[p])
       IN  /\ buckets' = com.buckets
           /\ Goto(p, IF com.status = 429 THEN "denied" ELSE "call_next")
    /\ UNCHANGED <<enabled, clock, last_cleanup_ts, admitted, denied_since, last>>
    /\ UNCHANGED <<rreq, rnow, rdeny, free_seen>>
    /\ UNCHANGED <<gwVars, stVars, extVars>>

\* call_next returns: the inner layers have answered.
Complete(p) ==
    /\ pc[p] = "call_next"
    /\ CanRun(p)
    /\ Goto(p, "served")
    /\ UNCHANGED <<rreq, rnow, rdeny, free_seen>>
    /\ UNCHANGED <<rlVars, gwVars, stVars, extVars>>

\* Time passes while no coroutine holds the event loop.
ConcTick ==
    /\ running = 0
    /\ TickTo(ConcMaxTicks)

ConcNext ==
    \/ ConcTick
    \/ \E p \in Reqs, req \in RLRequests : Receive(p, req)
    \/ \E p \in Reqs : Check(p)
    \/ \E p \in Reqs : Commit(p)
    \/ \E p \in Reqs : Complete(p)

SpecConc == ConcInit /\ [][ConcNext]_vars

PassedLimiter(k) ==
    {p \in Reqs : pc[p] \in {"call_next", "served"} /\ RateLimitKey(rreq[p]) = k}

\* C5: prune-check-append is atomic per key: however in-flight requests
\* interleave at their suspension points, at most C of a key's requests are
\* admitted inside any interval of length W, so of two requests that both
\* found the key with one free slot at most one takes it.
C5_AtomicAdmission ==
    enabled =>
        /\ \A k \in DOMAIN buckets : Len(buckets[k]) <= RATE_LIMIT_MAX_REQUESTS
        /\ \A k \in Keys :
             \A t \in (Epoch - RATE_LIMIT_WINDOW_SECONDS) .. (Epoch + MaxTicks) :
                Cardinality({p \in PassedLimiter(k) :
                                t <= rnow[p] /\ rnow[p] <= t + RATE_LIMIT_WINDOW_SECONDS})
                    <= RATE_LIMIT_MAX_REQUESTS

\* Two requests of one key were both received while the key had exactly one
\* free slot; one was admitted and is still suspended in call_next when the
\* other one is denied.
C5_Witness ==
    /\ enabled
    /\ \E p, q \in Reqs :
          /\ p # q
          /\ RateLimitKey(rreq[p]) = RateLimitKey(rreq[q])
          /\ free_seen[p] = 1 /\ free_seen[q] = 1
          /\ rnow[p] = rnow[q]
          /\ pc[p] = "call_next"
          /\ pc[q] = "denied"

(***************************************************************************)
(* Strings are sequences of one-character strings, so that str.strip()     *)
(* and str.lower() are computed and not assumed.                           *)
(***************************************************************************)
Whitespace == {" ", "\t", "\n"}
UpperChars == <<"A", "B", "C", "D", "E", "F", "G", "H", "I", "J", "K", "L", "M",
                "N", "O", "P", "Q", "R", "S", "T", "U", "V", "W", "X", "Y", "Z">>
LowerChars == <<"a", "b", "c", "d", "e", "f", "g", "h", "i", "j", "k", "l", "m",
                "n", "o", "p", "q", "r", "s", "t", "u", "v", "w", "x", "y", "z">>

LowerChar(c) ==
    IF \E i \in DOMAIN UpperChars : UpperChars[i] = c
    THEN LowerChars[CHOOSE i \in DOMAIN UpperChars : UpperChars[i] = c]
    ELSE c
\* str.lower()
Lower(str) == [i \in DOMAIN str |-> LowerChar(str[i])]

RECURSIVE LStrip(_)
LStrip(str) ==
    IF str # <<>> /\ Head(str) \in Whitespace THEN LStrip(Tail(str)) ELSE str
RECURSIVE RStrip(_)
RStrip(str) ==
    IF str # <<>> /\ str[Len(str)] \in Whitespace
    THEN RStrip(SubSeq(str, 1, Len(str) - 1))
    ELSE str
\* str.strip()
Strip(str) == RStrip(LStrip(str))

S_user      == <<"u", "s", "e", "r">>
S_system    == <<"s", "y", "s", "t", "e", "m">>
S_assistant == <<"a", "s", "s", "i", "s", "t", "a", "n", "t">>

(***************************************************************************)
(* _validate_request (app/routers/proxy.py). The answer is the detail of   *)
(* the HTTPException(400) raised, or None, and the request as the call     *)
(* leaves it: messages are rewritten in place while the loop advances.     *)
(***************************************************************************)
allowed_roles == {S_system, S_user, S_assistant}

NormRoleTrimOnly(role) == Strip(role)
\* role = (msg.role or "").strip().lower()
NormRole(role) == Lower(Strip(role))

NormContentLower(content) == Lower(Strip(content))
\* A trim that takes one whitespace character from each end.
NormContentStripOnce(content) ==
    LET a == IF content # <<>> /\ Head(content) \in Whitespace THEN Tail(content)
             ELSE content
    IN  IF a # <<>> /\ a[Len(a)] \in Whitespace THEN SubSeq(a, 1, Len(a) - 1) ELSE a
\* content = (msg.content or "").strip()
NormContent(content) == Strip(content)

\* The loop of lines 35-46 from message i on; done holds the messages
\* already rewritten.
NoDetail == <<>>
\* An Optional[...] field holds <<>> for None and <<v>> for the value v.
IsNone(field) == field = <<>>
Val(field) == field[1]

RECURSIVE ValidateMessages(_, _, _)
ValidateMessages(msgs, i, done) ==
    IF i > Len(msgs)
    THEN [detail |-> NoDetail, messages |-> done]
    ELSE LET msg == msgs[i]
             role == NormRole(msg.role)
             content == NormContent(msg.content)
             rest == SubSeq(msgs, i, Len(msgs))
         IN  IF role \notin allowed_roles
             THEN [detail |-> <<"Invalid role: ", msg.role>>, messages |-> done \o rest]
             ELSE IF content = <<>>
             THEN [detail |-> <<"Message content must not be empty">>,
                   messages |-> done \o rest]
             ELSE ValidateMessages(msgs, i + 1,
                                   Append(done, [role |-> role, content |-> content]))

LastRoleIsAssistantRaw(original, rewritten) ==
    original[Len(original)].role = S_assistant
\* request.messages[-1].role == "assistant", read after the rewrite
LastRoleIsAssistant(original, rewritten) ==
    rewritten[Len(rewritten)].role = S_assistant

\* The same checks with exclusive bounds: a value on a bound is rejected.
ValidateParamsExclusive(request) ==
    IF ~IsNone(request.temperature)
       /\ ~(0 < Val(request.temperature) /\ Val(request.temperature) < 2)
    THEN <<"temperature must be between 0 and 2">>
    ELSE IF ~IsNone(request.top_p)
            /\ ~(0 < Val(request.top_p) /\ Val(request.top_p) < 1)
    THEN <<"top_p must be between 0 and 1">>
    ELSE IF ~IsNone(request.max_tokens) /\ Val(request.max_tokens) <= 0
    THEN <<"max_tokens must be positive">>
    ELSE IF ~IsNone(request.frequency_penalty)
            /\ ~(-2 < Val(request.frequency_penalty)
                 /\ Val(request.frequency_penalty) < 2)
    THEN <<"frequency_penalty must be between -2 and 2">>
    ELSE IF ~IsNone(request.presence_penalty)
            /\ ~(-2 < Val(request.presence_penalty)
                 /\ Val(request.presence_penalty) < 2)
    THEN <<"presence_penalty must be between -2 and 2">>
    ELSE IF ~IsNone(request.n) /\ Val(request.n) <= 0
    THEN <<"n must be positive">>
    ELSE NoDetail

\* Lines 53-74: the optional sampling parameters.
ValidateParams(request) ==
    IF ~IsNone(request.temperature)
       /\ ~(0 <= Val(request.temperature) /\ Val(request.temperature) <= 2)
    THEN <<"temperature must be between 0 and 2">>
    ELSE IF ~IsNone(request.top_p)
            /\ ~(0 <= Val(request.top_p) /\ Val(request.top_p) <= 1)
    THEN <<"top_p must be between 0 and 1">>
    ELSE IF ~IsNone(request.max_tokens) /\ Val(request.max_tokens) <= 0
    THEN <<"max_tokens must be positive">>
    ELSE IF ~IsNone(request.frequency_penalty)
            /\ ~(-2 <= Val(request.frequency_penalty)
                 /\ Val(request.frequency_penalty) <= 2)
    THEN <<"frequency_penalty must be between -2 and 2">>
    ELSE IF ~IsNone(request.presence_penalty)
            /\ ~(-2 <= Val(request.presence_penalty)
                 /\ Val(request.presence_penalty) <= 2)
    THEN <<"presence_penalty must be between -2 and 2">>
    ELSE IF ~IsNone(request.n) /\ Val(request.n) <= 0
    THEN <<"n must be positive">>
    ELSE NoDetail

ValidateRequest(request) ==
    IF request.model = <<>> \/ Strip(request.model) = <<>>
    THEN [detail |-> <<"Model must not be empty">>, request |-> request]
    ELSE IF request.messages = <<>>
    THEN [detail |-> <<"Messages must not be empty">>, request |-> request]
    ELSE LET loop == ValidateMessages(request.messages, 1, <<>>)
             after == [request EXCEPT !.messages = loop.messages]
         IN  IF loop.detail # NoDetail
             THEN [detail |-> loop.detail, request |-> after]
             ELSE IF LastRoleIsAssistant(request.messages, loop.messages)
             THEN [detail |-> <<"Last message must not be from role \"assistant\"">>,
                   request |-> after]
             ELSE [detail |-> ValidateParams(after), request |-> after]

(***************************************************************************)
(* One request through the application: the middleware stack of            *)
(* app/main.py, then the handlers of app/routers/proxy.py.                 *)
(***************************************************************************)
MaxMsgs == 2

RoleInputs ==
    {S_user, <<" ", "U", "s", "e", "r", " ">>, S_system, S_assistant,
     <<" ", "A", "s", "s", "i", "s", "t", "a", "n", "t">>,
     <<"t", "o", "o", "l">>, <<" ">>}
ContentInputs == {<<"h", "i">>, <<" ", "H", "i", " ">>, <<" ">>}
ModelInputs == {<<"m">>, <<" ", "m", " ">>, <<" ">>, <<>>}
MessageInputs == [role : RoleInputs, content : ContentInputs]
MessageLists == UNION {[1 .. len -> MessageInputs] : len \in 0 .. MaxMsgs}

NoParams ==
    [temperature |-> <<>>, top_p |-> <<>>, max_tokens |-> <<>>,
     frequency_penalty |-> <<>>, presence_penalty |-> <<>>, n |-> <<>>]
ParamInputs ==
    {NoParams}
    \cup {[NoParams EXCEPT !.temperature = <<v>>] : v \in {-1, 0, 2, 3}}
    \cup {[NoParams EXCEPT !.top_p = <<v>>] : v \in {-1, 0, 1, 2}}
    \cup {[NoParams EXCEPT !.max_tokens = <<v>>] : v \in {-1, 0, 1}}
    \cup {[NoParams EXCEPT !.frequency_penalty = <<v>>] : v \in {-3, -2, 2, 3}}
    \cup {[NoParams EXCEPT !.presence_penalty = <<v>>] : v \in {-3, -2, 2, 3}}
    \cup {[NoParams EXCEPT !.n = <<v>>] : v \in {-1, 0, 1}}
    \cup {[temperature |-> <<1>>, top_p |-> <<1>>, max_tokens |-> <<1>>,
           frequency_penalty |-> <<0>>, presence_penalty |-> <<0>>, n |-> <<1>>],
          [NoParams EXCEPT !.temperature = <<3>>, !.n = <<0>>]}

ChatRequest(model, messages, params) ==
    [model |-> model, messages |-> messages,
     temperature |-> params.temperature, top_p |-> params.top_p,
     max_tokens |-> params.max_tokens,
     frequency_penalty |-> params.frequency_penalty,
     presence_penalty |-> params.presence_penalty, n |-> params.n]

DefaultBody ==
    ChatRequest(<<"m">>, <<[role |-> S_user, content |-> <<"h", "i">>]>>, NoParams)
SmallBodies == {DefaultBody, ChatRequest(<<"m">>, <<>>, NoParams)}
\* Every model and parameter choice with at most one message, and every
\* message list with the plain model and no parameters.
ShortMessageLists == {ms \in MessageLists : Len(ms) <= 1}
PaddedBody ==
    ChatRequest(<<"m">>,
                <<[role |-> S_user, content |-> <<" ", " ", "h", "i", " ", " ">>]>>,
                NoParams)
BodyInputs ==
    {ChatRequest(m, ms, ps) : m \in ModelInputs, ms \in ShortMessageLists, ps \in ParamInputs}
    \cup {ChatRequest(<<"m">>, ms, NoParams) : ms \in MessageLists}
    \cup {PaddedBody}

Paths == {"/proxy", "/proxy/stream"}
HttpInputs ==
    {[path |-> path, authorization |-> a, host |-> h, x_request_id |-> x, body |-> b] :
        path \in Paths, a \in {None, "tok-a"}, h \in HostValues,
        x \in {None, "rid-1"}, b \in BodyInputs}

\* The limiter's switch and what earlier requests left in the caller's bucket.
EnvInputs == [enabled : BOOLEAN, full : BOOLEAN]
DefaultEnv == [enabled |-> TRUE, full |-> FALSE]

\* app/main.py registers its middlewares in this order (lines 26, 38, 53, 101);
\* the one registered last is the outermost and runs first.
Registered == <<"cors", "max_body_size", "request_id", "rate_limit">>
Reverse(seq) == [i \in 1 .. Len(seq) |-> seq[Len(seq) + 1 - i]]
MiddlewareOrder == Reverse(Registered)

\* The steps of proxy and proxy_stream, in statement order: the parameters are
\* bound, _validate_request, the provider is chosen, the provider is called.
HandlerStepsResolveFirst == <<"parse", "resolve", "validate", "invoke">>
HandlerSteps == <<"parse", "validate", "resolve", "invoke">>

Stages == MiddlewareOrder \o HandlerSteps
StageIndex(stage) == CHOOSE i \in DOMAIN Stages : Stages[i] = stage
NextStage(stage) ==
    IF StageIndex(stage) < Len(Stages) THEN Stages[StageIndex(stage) + 1] ELSE "awaiting"
WrappedBy(stage, middleware) == StageIndex(middleware) < StageIndex(stage)

NoResp == [status |-> 0, detail |-> NoDetail, error |-> None, retry_after |-> <<>>,
           x_request_id |-> None, body_request_id |-> None, media |-> None,
           chat |-> <<>>, events |-> <<>>]
NoExc == [type |-> None, retry_after |-> <<>>]

\* add_request_id_header, lines 78-87: a response that comes back through the
\* middleware gets the x-request-id header.
Send(resp, stage) ==
    IF WrappedBy(stage, "request_id")
    THEN [resp EXCEPT !.x_request_id = gw_rid]
    ELSE resp

\* Line 110 of app/main.py: request.headers.get("authorization") or
\* request.client.host or "anonymous". A host of None stands for a request
\* whose request.client is None: the attribute access raises AttributeError
\* when the header did not already decide the `or`.
MainKey(http) ==
    IF http.authorization # None /\ http.authorization # ""
    THEN [raises |-> FALSE, key |-> http.authorization]
    ELSE IF http.host = None
    THEN [raises |-> TRUE, key |-> None]
    ELSE [raises |-> FALSE,
          key |-> IF http.host # "" THEN http.host ELSE "anonymous"]

\* rate_limit_middleware of app/main.py, lines 106-125 (no sweep).
MainRateLimit(bk, now, http) ==
    LET window_start == now - RATE_LIMIT_WINDOW_SECONDS
        key == MainKey(http).key
        bucket == PopExpired(BucketOf(bk, key), window_start)
    IN  IF Len(bucket) >= RATE_LIMIT_MAX_REQUESTS
        THEN [buckets |-> Put(bk, key, bucket), status |-> 429,
              retry_after |-> <<RATE_LIMIT_WINDOW_SECONDS>>]
        ELSE [buckets |-> Put(bk, key, Append(bucket, now)), status |-> 200,
              retry_after |-> <<>>]

\* A handler that would not find request.state.request_id and fall back to
\* the default of its getattr, a second uuid4.
ExceptionResponseFreshId(exc, rid) ==
    [NoResp EXCEPT !.status = 500, !.error = "Internal Server Error",
                   !.body_request_id = "uuid4-2", !.x_request_id = "uuid4-2",
                   !.media = "json"]

\* unhandled_exception_handler, the only exception handler app/main.py registers.
ExceptionResponse(exc, rid) ==
    [NoResp EXCEPT !.status = 500, !.error = "Internal Server Error",
                   !.body_request_id = rid, !.x_request_id = rid, !.media = "json"]

\* resolve_provider_for_model with MODEL_PROVIDER_MAP and LLM_PROVIDER unset:
\* every model resolves to the name "stub", and that name to a StubProvider.
ResolveProviderForModel(model) == "StubProvider"

\* The events of event_gen (lines 137-159).
DataEvent(chunk) == <<"data: ", chunk, "\n\n">>
DoneEvent == <<"data: ", "[DONE]", "\n\n">>
\* json.dumps of {"error": "stream_error", "message": str(exc), "request_id": rid}
JsonDumpsErr(message, rid) ==
    <<"{\"error\": \"stream_error\", \"message\": \"", message,
      "\", \"request_id\": \"", rid, "\"}">>
ErrorEvent(message, rid) == <<"data: ">> \o JsonDumpsErr(message, rid) \o <<"\n\n">>

\* The two yields of the except branch, lines 158-159.
ErrorBranchEventsNoDone(message, rid) == <<ErrorEvent(message, rid)>>
ErrorBranchEvents(message, rid) == <<ErrorEvent(message, rid), DoneEvent>>

\* The whole body of a streamed response that is read to its end: the framed
\* fragments, then the marker, or the two events of the except branch.
EventGen(parts, raised, message, rid) ==
    [i \in DOMAIN parts |-> DataEvent(parts[i])]
    \o (IF raised THEN ErrorBranchEvents(message, rid) ELSE <<DoneEvent>>)

\* StubProvider (app/providers/stub.py): a fixed response and two fixed parts.
StubChatResponse ==
    [id |-> "stub", object |-> "chat.completion",
     choices |-> <<[index |-> 0, role |-> "assistant", content |-> "stub response",
                    finish_reason |-> "stop"]>>,
     usage |-> [prompt_tokens |-> 0, completion_tokens |-> 0, total_tokens |-> 0]]
StubPartsJoined == <<"stub response">>
StubParts == <<"stub ", "response">>
\* What an injected provider returns, and the fragment it yields before its
\* stream ends or fails.
InjectedChatResponse ==
    [id |-> "inj", object |-> "chat.completion",
     choices |-> <<[index |-> 0, role |-> "assistant", content |-> "one",
                    finish_reason |-> "stop"],
                   [index |-> 1, role |-> "assistant", content |-> "two",
                    finish_reason |-> "length"]>>,
     usage |-> [prompt_tokens |-> 3, completion_tokens |-> 4, total_tokens |-> 7]]
ProviderChat(provider) ==
    IF provider = "StubProvider" THEN StubChatResponse ELSE InjectedChatResponse
ProviderParts(provider) ==
    IF provider = "StubProvider" THEN StubParts ELSE <<"hello">>

TypedErrors == {"ProviderModelNotFoundError", "ProviderUnauthorizedError",
                "ProviderForbiddenError", "ProviderRateLimitError"}
\* What a call of chat or chat_stream can end with. StubProvider returns; an
\* injected provider, like the adapter, may raise a typed or any other error.
ProviderOutcomes(provider) ==
    IF provider = "StubProvider"
    THEN {[type |-> "ok", retry_after |-> <<>>]}
    ELSE {[type |-> t, retry_after |-> <<>>] :
             t \in {"ok", "RuntimeError"} \cup TypedErrors}
         \cup {[type |-> "ProviderRateLimitError", retry_after |-> <<7>>]}

GwInit ==
    /\ clock = Epoch
    /\ last_cleanup_ts = 0
    /\ admitted = [k \in Keys |-> <<>>]
    /\ denied_since = {}
    /\ last = NoAttempt
    /\ ConcIdle
    /\ StIdle
    /\ ExtIdle
    /\ \E http \in HttpInputs, env \in EnvInputs :
          /\ \/ http.body \in SmallBodies
             \/ (env = DefaultEnv /\ http.authorization # None /\ http.x_request_id = None)
          /\ http.host = None => http.body = DefaultBody
          /\ gw_http = http
          /\ enabled = env.enabled
          /\ buckets = IF env.full
                       THEN [k \in {RateLimitKey(http)} |->
                                [i \in 1 .. RATE_LIMIT_MAX_REQUESTS |-> Epoch]]
                       ELSE <<>>
    /\ gw_pc = Stages[1]
    /\ gw_req = <<>>
    /\ gw_rid = None
    /\ gw_provider = None
    /\ gw_exc = NoExc
    /\ gw_resp = NoResp
    /\ gw_log = <<>>
    /\ gw_seen = <<>>
    /\ gw_metrics = <<>>

GwFrame == UNCHANGED <<clock, last_cleanup_ts, admitted, denied_since, last, enabled,
                       gw_http, concVars, stVars, extVars>>

\* rate_limit_middleware (app/main.py, lines 101-125).
GwRateLimit ==
    /\ gw_pc = "rate_limit"
    /\ IF ~enabled
       THEN /\ gw_log' = Append(gw_log, "rate_limit:bypass")
            /\ gw_pc' = NextStage("rate_limit")
            /\ UNCHANGED <<buckets, gw_resp>>
       ELSE IF MainKey(gw_http).raises
       THEN \* the AttributeError leaves every middleware and reaches the
            \* handler of Exception (lines 128-136); request.state has no
            \* request_id yet, so the handler makes its own uuid4
            /\ gw_log' = Append(gw_log, "rate_limit:raise")
            /\ gw_resp' = ExceptionResponse([type |-> "AttributeError",
                                             retry_after |-> <<>>], "uuid4-1")
            /\ gw_pc' = "sent"
            /\ UNCHANGED buckets
       ELSE LET r == MainRateLimit(buckets, clock, gw_http)
            IN  /\ buckets' = r.buckets
                /\ IF r.status = 429
                   THEN /\ gw_log' = Append(gw_log, "rate_limit:deny")
                        /\ gw_resp' = Send([NoResp EXCEPT !.status = 429,
                                                          !.retry_after = r.retry_after],
                                           "rate_limit")
                        /\ gw_pc' = "sent"
                   ELSE /\ gw_log' = Append(gw_log, "rate_limit:admit")
                        /\ gw_pc' = NextStage("rate_limit")
                        /\ UNCHANGED gw_resp
    /\ UNCHANGED <<gw_req, gw_rid, gw_provider, gw_exc, gw_seen, gw_metrics>>
    /\ GwFrame

\* add_request_id_header (lines 53-58): the id is the inbound header or a uuid4.
GwRequestId ==
    /\ gw_pc = "request_id"
    /\ gw_rid' = IF gw_http.x_request_id # None /\ gw_http.x_request_id # ""
                 THEN gw_http.x_request_id
                 ELSE "uuid4-1"
    /\ gw_log' = Append(gw_log, "request_id")
    /\ gw_pc' = NextStage("request_id")
    /\ UNCHANGED <<buckets, gw_req, gw_provider, gw_exc, gw_resp, gw_seen, gw_metrics>>
    /\ GwFrame

\* enforce_max_body_size (lines 38-49): 413 when MAX_REQUEST_BYTES is set and
\* the content-length exceeds it.
GwMaxBodySize ==
    /\ gw_pc = "max_body_size"
    /\ \E max_request_bytes \in {0, 1}, content_length \in {1, 2} :
          IF max_request_bytes > 0 /\ content_length > max_request_bytes
          THEN /\ gw_log' = Append(gw_log, "max_body_size:413")
               /\ gw_resp' = Send([NoResp EXCEPT !.status = 413], "max_body_size")
               /\ gw_pc' = "sent"
          ELSE /\ gw_log' = Append(gw_log, "max_body_size:pass")
               /\ gw_pc' = NextStage("max_body_size")
               /\ UNCHANGED gw_resp
    /\ UNCHANGED <<buckets, gw_req, gw_rid, gw_provider, gw_exc, gw_seen, gw_metrics>>
    /\ GwFrame

\* CORSMiddleware (lines 26-32) passes the request on.
GwCors ==
    /\ gw_pc = "cors"
    /\ gw_log' = Append(gw_log, "cors")
    /\ gw_pc' = NextStage("cors")
    /\ UNCHANGED <<buckets, gw_req, gw_rid, gw_provider, gw_exc, gw_resp, gw_seen,
                   gw_metrics>>
    /\ GwFrame

\* The parameters of proxy / proxy_stream are bound: the body is the ChatRequest,
\* the Authorization header is required (422 without it), and
\* get_provider_override gives None unless a provider is injected.
GwParse ==
    /\ gw_pc = "parse"
    /\ IF gw_http.authorization = None
       THEN /\ gw_log' = Append(gw_log, "parse:422")
            /\ gw_resp' = Send([NoResp EXCEPT !.status = 422, !.media = "json"], "parse")
            /\ gw_pc' = "sent"
            /\ UNCHANGED <<gw_req, gw_provider>>
       ELSE /\ \E injected \in {None, "InjectedProvider"} : gw_provider' = injected
            /\ gw_req' = gw_http.body
            /\ gw_log' = Append(gw_log, "parse:ok")
            /\ gw_pc' = NextStage("parse")
            /\ UNCHANGED gw_resp
    /\ UNCHANGED <<buckets, gw_rid, gw_exc, gw_seen, gw_metrics>>
    /\ GwFrame

\* _validate_request(request) (proxy.py lines 84 and 123): the HTTPException
\* becomes a 400 with the detail.
GwValidate ==
    /\ gw_pc = "validate"
    /\ LET v == ValidateRequest(gw_req)
       IN  /\ gw_req' = v.request
           /\ IF v.detail # NoDetail
              THEN /\ gw_log' = Append(gw_log, "validate:400")
                   /\ gw_resp' = Send([NoResp EXCEPT !.status = 400, !.detail = v.detail,
                                                     !.media = "json"], "validate")
                   /\ gw_pc' = "sent"
              ELSE /\ gw_log' = Append(gw_log, "validate:ok")
                   /\ gw_pc' = NextStage("validate")
                   /\ UNCHANGED gw_resp
    /\ UNCHANGED <<buckets, gw_rid, gw_provider, gw_exc, gw_seen, gw_metrics>>
    /\ GwFrame

\* chosen_provider = provider or resolve_provider_for_model(request.model)
GwResolve ==
    /\ gw_pc = "resolve"
    /\ IF gw_provider # None
       THEN /\ gw_log' = Append(gw_log, "resolve:injected")
            /\ UNCHANGED gw_provider
       ELSE /\ gw_log' = Append(gw_log, "resolve:registry")
            /\ gw_provider' = ResolveProviderForModel(gw_req.model)
    /\ gw_pc' = NextStage("resolve")
    /\ UNCHANGED <<buckets, gw_req, gw_rid, gw_exc, gw_resp, gw_seen, gw_metrics>>
    /\ GwFrame

\* proxy awaits chosen_provider.chat (line 100); proxy_stream returns the
\* StreamingResponse, whose body calls chosen_provider.chat_stream (line 141).
GwInvoke ==
    /\ gw_pc = "invoke"
    /\ gw_seen' = Append(gw_seen, [request |-> gw_req,
                                   authorization |-> gw_http.authorization])
    /\ IF gw_http.path = "/proxy"
       THEN /\ gw_log' = Append(gw_log, "chat")
            /\ UNCHANGED gw_resp
       ELSE /\ gw_log' = Append(gw_log, "chat_stream")
            /\ gw_resp' = Send([NoResp EXCEPT !.status = 200, !.media = "sse"], "invoke")
    /\ gw_pc' = NextStage("invoke")
    /\ UNCHANGED <<buckets, gw_req, gw_rid, gw_provider, gw_exc, gw_metrics>>
    /\ GwFrame

\* The provider call ends: the finally block reports the outcome (lines
\* 102-112, 144-167); chat's result is the 200 response, and what chat raises
\* reaches the application's exception handlers.
GwProviderDone ==
    /\ gw_pc = "awaiting"
    /\ \E out \in ProviderOutcomes(gw_provider) :
          /\ gw_exc' = IF out.type = "ok" THEN NoExc ELSE out
          /\ gw_metrics' =
                Append(gw_metrics,
                       [provider |-> gw_provider,
                        operation |-> IF gw_http.path = "/proxy" THEN "chat"
                                                                 ELSE "chat_stream",
                        outcome |-> IF out.type = "ok" THEN "success" ELSE "error"])
          /\ gw_resp' =
                IF gw_http.path # "/proxy"
                THEN [gw_resp EXCEPT !.events =
                         EventGen(ProviderParts(gw_provider), out.type # "ok",
                                  out.type, gw_rid)]
                ELSE IF out.type = "ok"
                THEN Send([NoResp EXCEPT !.status = 200, !.media = "json",
                                         !.chat = <<ProviderChat(gw_provider)>>],
                          "invoke")
                ELSE ExceptionResponse(out, gw_rid)
          /\ gw_log' = Append(gw_log, IF out.type = "ok" THEN "provider:return"
                                                         ELSE "provider:raise")
    /\ gw_pc' = "sent"
    /\ UNCHANGED <<buckets, gw_req, gw_rid, gw_provider, gw_seen>>
    /\ GwFrame

GwNext ==
    \/ GwRateLimit
    \/ GwRequestId
    \/ GwMaxBodySize
    \/ GwCors
    \/ GwParse
    \/ GwValidate
    \/ GwResolve
    \/ GwInvoke
    \/ GwProviderDone

SpecGW == GwInit /\ [][GwNext]_vars

(***************************************************************************)
(* Claims about validation and the pipeline, checked under SpecGW. The     *)
(* rules are stated on the body as the client sent it.                     *)
(***************************************************************************)
InLog(event) == \E i \in DOMAIN gw_log : gw_log[i] = event
Idx(events) == {i \in DOMAIN gw_log : gw_log[i] \in events}
Before(A, B) == \A a \in A, b \in B : a < b
Validated == InLog("validate:ok") \/ InLog("validate:400")
Invoked == InLog("chat") \/ InLog("chat_stream")

TrimmedLower(str) == Lower(Strip(str))
ValidRoles == {S_system, S_user, S_assistant}
OutOfRange(b) ==
    {name \in {"temperature", "top_p", "max_tokens", "frequency_penalty",
               "presence_penalty", "n"} :
        CASE name = "temperature" ->
                b.temperature # <<>> /\ (b.temperature[1] < 0 \/ b.temperature[1] > 2)
          [] name = "top_p" ->
                b.top_p # <<>> /\ (b.top_p[1] < 0 \/ b.top_p[1] > 1)
          [] name = "max_tokens" ->
                b.max_tokens # <<>> /\ b.max_tokens[1] < 1
          [] name = "frequency_penalty" ->
                b.frequency_penalty # <<>>
                /\ (b.frequency_penalty[1] < -2 \/ b.frequency_penalty[1] > 2)
          [] name = "presence_penalty" ->
                b.presence_penalty # <<>>
                /\ (b.presence_penalty[1] < -2 \/ b.presence_penalty[1] > 2)
          [] name = "n" ->
                b.n # <<>> /\ b.n[1] < 1}
BadRoles(b) == {i \in DOMAIN b.messages : TrimmedLower(b.messages[i].role) \notin ValidRoles}
ViolatedRules(b) ==
    {rule \in {"model", "messages", "role", "content", "trailing", "param"} :
        CASE rule = "model" -> Strip(b.model) = <<>>
          [] rule = "messages" -> b.messages = <<>>
          [] rule = "role" -> BadRoles(b) # {}
          [] rule = "content" ->
                \E i \in DOMAIN b.messages : Strip(b.messages[i].content) = <<>>
          [] rule = "trailing" ->
                /\ b.messages # <<>>
                /\ TrimmedLower(b.messages[Len(b.messages)].role) = S_assistant
          [] rule = "param" -> OutOfRange(b) # {}}
ParamDetail(name) ==
    CASE name = "temperature" -> <<"temperature must be between 0 and 2">>
      [] name = "top_p" -> <<"top_p must be between 0 and 1">>
      [] name = "max_tokens" -> <<"max_tokens must be positive">>
      [] name = "frequency_penalty" -> <<"frequency_penalty must be between -2 and 2">>
      [] name = "presence_penalty" -> <<"presence_penalty must be between -2 and 2">>
      [] name = "n" -> <<"n must be positive">>
DetailsOf(b, rule) ==
    CASE rule = "model" -> {<<"Model must not be empty">>}
      [] rule = "messages" -> {<<"Messages must not be empty">>}
      [] rule = "role" -> {<<"Invalid role: ", b.messages[i].role>> : i \in BadRoles(b)}
      [] rule = "content" -> {<<"Message content must not be empty">>}
      [] rule = "trailing" -> {<<"Last message must not be from role \"assistant\"">>}
      [] rule = "param" -> {ParamDetail(name) : name \in OutOfRange(b)}

\* C6: a request that reaches the validator and violates exactly one of its
\* rules is answered 400 with the detail of that rule, and neither chat nor
\* chat_stream of any provider is called.
C6_OneViolationRejected ==
    (Validated /\ Cardinality(ViolatedRules(gw_http.body)) = 1)
    => /\ gw_pc = "sent"
       /\ gw_resp.status = 400
       /\ \E rule \in ViolatedRules(gw_http.body) :
             gw_resp.detail \in DetailsOf(gw_http.body, rule)
       /\ ~Invoked
       /\ gw_seen = <<>>
       /\ gw_metrics = <<>>

C6_Witness ==
    /\ Validated
    /\ ViolatedRules(gw_http.body) = {"trailing"}
    /\ gw_http.body.messages[Len(gw_http.body.messages)].role # S_assistant
    /\ gw_http.path = "/proxy/stream"
    /\ gw_resp.status = 400
    /\ gw_pc = "sent"

\* C7 as stated: a request with a non-empty model, a non-empty message list
\* whose last role is not assistant, valid roles and non-empty trimmed contents
\* passes validation, and every role and content is then the trimmed and
\* lower-cased original.
C7_NormalizedTrimmedLowerCased ==
    (Validated
       /\ Strip(gw_http.body.model) # <<>>
       /\ ViolatedRules(gw_http.body) \cap {"messages", "role", "content", "trailing"} = {})
    => /\ InLog("validate:ok")
       /\ Len(gw_req.messages) = Len(gw_http.body.messages)
       /\ \A i \in DOMAIN gw_req.messages :
             /\ gw_req.messages[i].role = TrimmedLower(gw_http.body.messages[i].role)
             /\ gw_req.messages[i].content = TrimmedLower(gw_http.body.messages[i].content)

\* C7 as amended: a request that violates no rule of the validator (the
\* sampling parameters included) passes validation; afterwards every role is
\* the trimmed and lower-cased original, every content is the trimmed original
\* with its case kept, and this is the request the provider is called with.
C7_NormalizedRequest ==
    (Validated /\ ViolatedRules(gw_http.body) = {})
    => /\ InLog("validate:ok")
       /\ gw_resp.status # 400
       /\ Len(gw_req.messages) = Len(gw_http.body.messages)
       /\ \A i \in DOMAIN gw_req.messages :
             /\ gw_req.messages[i].role = TrimmedLower(gw_http.body.messages[i].role)
             /\ gw_req.messages[i].content = Strip(gw_http.body.messages[i].content)
       /\ \A k \in DOMAIN gw_seen : gw_seen[k].request = gw_req

C7_Witness ==
    /\ InLog("chat")
    /\ ViolatedRules(gw_http.body) = {}
    /\ gw_http.body.messages[1] = [role |-> <<" ", "U", "s", "e", "r", " ">>,
                                   content |-> <<" ", "H", "i", " ">>]
    /\ gw_seen # <<>>
    /\ gw_seen[1].request.messages[1] = [role |-> S_user, content |-> <<"H", "i">>]

RateLimitEvents == {"rate_limit:bypass", "rate_limit:admit", "rate_limit:deny"}
ValidateEvents == {"validate:ok", "validate:400"}
ResolveEvents == {"resolve:injected", "resolve:registry"}
InvokeEvents == {"chat", "chat_stream"}

\* C8: for one request, admission comes before validation, validation before
\* provider resolution, resolution before the provider call; a denial by the
\* limiter is followed by no validation, resolution or provider call, and a
\* validation failure by no resolution or provider call.
C8_PipelineOrder ==
    /\ \A E \in {RateLimitEvents, ValidateEvents, ResolveEvents, InvokeEvents} :
          Cardinality(Idx(E)) <= 1
    /\ Idx(ValidateEvents) # {}
          => (Idx(RateLimitEvents) # {}
              /\ Before(Idx(RateLimitEvents), Idx(ValidateEvents)))
    /\ Idx(ResolveEvents) # {}
          => (InLog("validate:ok") /\ Before(Idx(ValidateEvents), Idx(ResolveEvents)))
    /\ Idx(InvokeEvents) # {}
          => (Idx(ResolveEvents) # {} /\ Before(Idx(ResolveEvents), Idx(InvokeEvents)))
    /\ gw_seen # <<>> => Idx(InvokeEvents) # {}
    /\ InLog("rate_limit:deny")
          => /\ gw_pc = "sent" /\ gw_resp.status = 429
             /\ Idx(ValidateEvents \cup ResolveEvents \cup InvokeEvents) = {}
             /\ gw_seen = <<>>
    /\ InLog("validate:400")
          => /\ gw_pc = "sent" /\ gw_resp.status = 400
             /\ Idx(ResolveEvents \cup InvokeEvents) = {}
             /\ gw_seen = <<>>

C8_Witness ==
    /\ gw_pc = "sent"
    /\ InLog("rate_limit:admit")
    /\ InLog("validate:ok")
    /\ InLog("resolve:registry")
    /\ InLog("chat")
    /\ gw_resp.status = 200

\* C10: POST /proxy answers a typed provider error with its own status:
\* ModelNotFound 404 "Model Not Found", Unauthorized 401 "Unauthorized",
\* Forbidden 403 "Forbidden", RateLimited 429 "Rate Limited" with Retry-After
\* equal to retry_after; none of them is answered with 500.
TypedStatus(type) ==
    CASE type = "ProviderModelNotFoundError" -> 404
      [] type = "ProviderUnauthorizedError" -> 401
      [] type = "ProviderForbiddenError" -> 403
      [] type = "ProviderRateLimitError" -> 429
TypedError(type) ==
    CASE type = "ProviderModelNotFoundError" -> "Model Not Found"
      [] type = "ProviderUnauthorizedError" -> "Unauthorized"
      [] type = "ProviderForbiddenError" -> "Forbidden"
      [] type = "ProviderRateLimitError" -> "Rate Limited"
C10_TypedErrorsMapped ==
    (gw_pc = "sent" /\ gw_http.path = "/proxy" /\ gw_exc.type \in TypedErrors)
    => /\ gw_resp.status = TypedStatus(gw_exc.type)
       /\ gw_resp.error = TypedError(gw_exc.type)
       /\ gw_exc.type = "ProviderRateLimitError"
             => gw_resp.retry_after = gw_exc.retry_after
       /\ gw_resp.status # 500

(***************************************************************************)
(* event_gen of proxy_stream (app/routers/proxy.py, lines 137-167): the    *)
(* generator the StreamingResponse iterates. An event is the sequence of   *)
(* the strings the f-string joins.                                         *)
(***************************************************************************)
MaxFrags == 2

\* What a provider may yield; the text of the terminal marker is one of them.
Fragments == {"stub ", "[DONE]"}
ExcMessages == {"", "boom"}
RequestIds == {"-", "rid-1", "uuid4-1"}

StInit ==
    /\ enabled = FALSE
    /\ clock = Epoch
    /\ buckets = <<>>
    /\ last_cleanup_ts = 0
    /\ admitted = [k \in Keys |-> <<>>]
    /\ denied_since = {}
    /\ last = NoAttempt
    /\ ConcIdle
    /\ GwIdle
    /\ ExtIdle
    /\ st_pc = "created"
    /\ st_rid \in RequestIds
    /\ st_frags = <<>>
    /\ st_end = <<>>
    /\ st_pending = <<>>
    /\ st_events = <<>>
    /\ st_status = 0
    /\ st_outcome = None
    /\ st_metrics = <<>>

StFrame == UNCHANGED <<rlVars, concVars, gwVars, st_rid, extVars>>

\* StreamingResponse sends the response start with its default status 200
\* and then asks the generator for its first event (lines 138-141, 169).
StBegin ==
    /\ st_pc = "created"
    /\ st_status' = 200
    /\ st_outcome' = "success"
    /\ st_pc' = "pulling"
    /\ UNCHANGED <<st_frags, st_end, st_pending, st_events, st_metrics>>
    /\ StFrame

\* chat_stream yields a fragment; the generator reaches the yield of line 142.
StProviderYield(chunk) ==
    /\ st_pc = "pulling"
    /\ Len(st_frags) < MaxFrags
    /\ st_frags' = Append(st_frags, chunk)
    /\ st_pending' = <<DataEvent(chunk)>>
    /\ st_pc' = "yield_chunk"
    /\ UNCHANGED <<st_end, st_events, st_status, st_outcome, st_metrics>>
    /\ StFrame

\* chat_stream is exhausted; the generator reaches the yield of line 143.
StProviderEnd ==
    /\ st_pc = "pulling"
    /\ st_end' = <<"end">>
    /\ st_pending' = <<DoneEvent>>
    /\ st_pc' = "yield_tail"
    /\ UNCHANGED <<st_frags, st_events, st_status, st_outcome, st_metrics>>
    /\ StFrame

\* chat_stream raises an Exception; lines 144-158.
StProviderRaise(message) ==
    /\ st_pc = "pulling"
    /\ st_end' = <<"raise", message>>
    /\ st_outcome' = "error"
    /\ st_pending' = ErrorBranchEvents(message, st_rid)
    /\ st_pc' = "yield_tail"
    /\ UNCHANGED <<st_frags, st_events, st_status, st_metrics>>
    /\ StFrame

\* The response sends the yielded event and resumes the generator: back to
\* the provider after a fragment, on to the next yield of the branch, or
\* through the finally block (lines 160-167) to the end.
StResume ==
    /\ st_pc \in {"yield_chunk", "yield_tail"}
    /\ st_events' = Append(st_events, Head(st_pending))
    /\ st_pending' = Tail(st_pending)
    /\ IF st_pc = "yield_chunk"
       THEN /\ st_pc' = "pulling"
            /\ UNCHANGED st_metrics
       ELSE IF Tail(st_pending) # <<>>
       THEN UNCHANGED <<st_pc, st_metrics>>
       ELSE /\ st_pc' = "finished"
            /\ st_metrics' = Append(st_metrics, st_outcome)
    /\ UNCHANGED <<st_frags, st_end, st_status, st_outcome>>
    /\ StFrame

\* The client goes away: the task is cancelled or the generator is closed.
\* CancelledError and GeneratorExit are no Exception, so line 144 does not
\* catch them; only the finally block runs.
StDisconnect ==
    /\ st_pc \in {"pulling", "yield_chunk", "yield_tail"}
    /\ st_end' = IF st_end = <<>> THEN <<"cancelled">> ELSE st_end
    /\ st_pending' = <<>>
    /\ st_metrics' = Append(st_metrics, st_outcome)
    /\ st_pc' = "aborted"
    /\ UNCHANGED <<st_frags, st_events, st_status, st_outcome>>
    /\ StFrame

StNext ==
    \/ StBegin
    \/ \E chunk \in Fragments : StProviderYield(chunk)
    \/ StProviderEnd
    \/ \E message \in ExcMessages : StProviderRaise(message)
    \/ StResume
    \/ StDisconnect

SpecStream == StInit /\ [][StNext]_vars

Framed(frags) == [i \in DOMAIN frags |-> DataEvent(frags[i])]
Count(seq, x) == Cardinality({i \in DOMAIN seq : seq[i] = x})
StreamFailed == st_end # <<>> /\ st_end[1] = "raise"

InboundRequestId == gw_http.x_request_id # None /\ gw_http.x_request_id # ""
UnclassifiedRaised == gw_exc.type # None /\ gw_exc.type \notin TypedErrors

\* C11: when the provider called by POST /proxy raises an exception that is
\* not a typed provider error, the response has status 500, its body is
\* {error: "Internal Server Error", request_id} and nothing else, request_id
\* equals the x-request-id header of the response, and both equal the inbound
\* x-request-id when the request carried one.
C11_UnclassifiedIs500 ==
    (gw_pc = "sent" /\ gw_http.path = "/proxy" /\ UnclassifiedRaised)
    => /\ gw_resp.status = 500
       /\ gw_resp.error = "Internal Server Error"
       /\ gw_resp.detail = NoDetail
       /\ gw_resp.retry_after = <<>>
       /\ gw_resp.body_request_id # None
       /\ gw_resp.body_request_id = gw_resp.x_request_id
       /\ gw_resp.body_request_id = gw_rid
       /\ InboundRequestId => gw_resp.body_request_id = gw_http.x_request_id

C11_Witness ==
    /\ gw_pc = "sent"
    /\ gw_http.path = "/proxy"
    /\ gw_exc.type = "RuntimeError"
    /\ gw_http.x_request_id = "rid-1"
    /\ gw_resp.status = 500
    /\ gw_resp.x_request_id = "rid-1"

\* C12: two unclassified exceptions that differ only in their message, raised
\* at the same point of chat_stream, give the caller the same event sequence:
\* the events received after a failure are those any other message would have
\* produced.
C12_MessageDoesNotCross ==
    (st_pc = "finished" /\ StreamFailed)
    => \A message \in ExcMessages :
          st_events = Framed(st_frags) \o ErrorBranchEvents(message, st_rid)

\* C13: every response sent carries an x-request-id header, equal to the
\* inbound x-request-id when the request carried one and freshly generated
\* otherwise, whichever layer produced the response.
C13_EveryResponseHasRequestId ==
    (gw_pc = "sent" \/ gw_resp.status # 0)
    => /\ gw_resp.x_request_id # None
       /\ IF InboundRequestId
          THEN gw_resp.x_request_id = gw_http.x_request_id
          ELSE gw_resp.x_request_id = "uuid4-1"

(***************************************************************************)
(* The provider registry (app/providers/registry.py). Texts are sequences  *)
(* of characters, so that split, strip and lower are computed.             *)
(***************************************************************************)
MaxEntries == 2
MaxResolves == 2

S_stub == <<"s", "t", "u", "b">>
S_vllm == <<"v", "l", "l", "m">>

IndexOf(text, c) ==
    IF \E i \in DOMAIN text : text[i] = c
    THEN CHOOSE i \in DOMAIN text : text[i] = c /\ \A j \in 1 .. i - 1 : text[j] # c
    ELSE 0
\* str.split(sep)
RECURSIVE Split(_, _)
Split(text, sep) ==
    LET i == IndexOf(text, sep)
    IN  IF i = 0 THEN <<text>>
        ELSE <<SubSeq(text, 1, i - 1)>> \o Split(SubSeq(text, i + 1, Len(text)), sep)
StartsWith(text, prefix) ==
    Len(prefix) <= Len(text) /\ SubSeq(text, 1, Len(prefix)) = prefix
EndsWith(text, suffix) ==
    Len(suffix) <= Len(text)
    /\ SubSeq(text, Len(text) - Len(suffix) + 1, Len(text)) = suffix

\* A dict as the sequence of its items in insertion order; assigning to a key
\* that is present replaces its value and keeps its position.
DictHas(d, k) == \E i \in DOMAIN d : d[i].key = k
DictGet(d, k) == d[CHOOSE i \in DOMAIN d : d[i].key = k].provider
DictSetKeepFirst(d, k, v) ==
    IF DictHas(d, k) THEN d ELSE Append(d, [key |-> k, provider |-> v])
DictSet(d, k, v) ==
    IF DictHas(d, k)
    THEN [i \in DOMAIN d |-> IF d[i].key = k THEN [key |-> k, provider |-> v] ELSE d[i]]
    ELSE Append(d, [key |-> k, provider |-> v])

\* parse_model_provider_map, lines 10-22.
RECURSIVE ParseParts(_, _)
ParseParts(parts, mapping) ==
    IF parts = <<>> THEN mapping
    ELSE LET part == Strip(Head(parts))
             eq == IndexOf(part, "=")
         IN  IF part = <<>> \/ eq = 0
             THEN ParseParts(Tail(parts), mapping)
             ELSE ParseParts(Tail(parts),
                             DictSet(mapping,
                                     Strip(SubSeq(part, 1, eq - 1)),
                                     Lower(Strip(SubSeq(part, eq + 1, Len(part))))))
parse_model_provider_map(raw) ==
    IF raw = <<>> THEN <<>> ELSE ParseParts(Split(raw, ","), <<>>)

\* The loop of lines 30-34: the first item, in insertion order, whose key ends
\* with "*" and whose prefix the model starts with.
WildcardHits(model, mapping) ==
    {i \in DOMAIN mapping :
        /\ EndsWith(mapping[i].key, <<"*">>)
        /\ StartsWith(model, SubSeq(mapping[i].key, 1, Len(mapping[i].key) - 1))}
FirstOf(S) == CHOOSE i \in S : \A j \in S : i <= j
LastOf(S) == CHOOSE i \in S : \A j \in S : j <= i
PickWildcardLast(model, mapping) == mapping[LastOf(WildcardHits(model, mapping))].provider
PickWildcard(model, mapping) == mapping[FirstOf(WildcardHits(model, mapping))].provider

\* os.getenv("LLM_PROVIDER", "stub").lower()
DefaultProviderName(env) == Lower(IF env = <<>> THEN S_stub ELSE env[1])

\* resolve_provider_name_for_model, lines 25-36.
WildcardFirstLookup(model, mapping, env) ==
    IF WildcardHits(model, mapping) # {} THEN PickWildcard(model, mapping)
    ELSE IF DictHas(mapping, model) THEN DictGet(mapping, model)
    ELSE DefaultProviderName(env)
resolve_provider_name_for_model(model, mapping, env) ==
    IF DictHas(mapping, model) THEN DictGet(mapping, model)
    ELSE IF WildcardHits(model, mapping) # {} THEN PickWildcard(model, mapping)
    ELSE DefaultProviderName(env)

\* get_provider_by_name, lines 43-57: the normalized name and the class.
openai_compat_aliases ==
    {<<"o", "l", "l", "a", "m", "a">>,
     <<"o", "p", "e", "n", "a", "i">>,
     <<"o", "p", "e", "n", "a", "i", "_", "c", "o", "m", "p", "a", "t">>,
     <<"o", "p", "e", "n", "a", "i", "-", "c", "o", "m", "p", "a", "t", "i", "b", "l", "e">>,
     <<"c", "o", "m", "p", "a", "t">>,
     <<"v", "l", "l", "m">>,
     <<"l", "o", "c", "a", "l", "a", "i">>,
     <<"l", "m", "s", "t", "u", "d", "i", "o">>,
     <<"l", "l", "a", "m", "a", "c", "p", "p">>,
     <<"l", "l", "a", "m", "a", ".", "c", "p", "p">>}
NormalizeName(name) == Lower(IF name = <<>> THEN S_stub ELSE name)
ProviderClassAlwaysCompat(name) == "OpenAICompatibleProvider"
ProviderClass(name) ==
    IF name \in openai_compat_aliases THEN "OpenAICompatibleProvider" ELSE "StubProvider"

CacheHas(cache, name) == \E e \in cache : e.name = name
CacheGet(cache, name) == (CHOOSE e \in cache : e.name = name).inst
CachePut(cache, name, inst) ==
    {e \in cache : e.name # name} \cup {[name |-> name, inst |-> inst]}

\* The inputs: entries as they are written in MODEL_PROVIDER_MAP, each with
\* the key and the provider name its author means (none for a part that is no
\* entry), joined with commas.
NoKey == <<"\n">>
EntryInputs ==
    {[text |-> <<"g", "4", "=", "a">>, key |-> <<"g", "4">>, provider |-> <<"a">>],
     [text |-> <<"g", "*", "=", "b">>, key |-> <<"g", "*">>, provider |-> <<"b">>],
     [text |-> <<" ", "g", "4", " ", "=", " ", "V", "L", "L", "M", " ">>, key |-> <<"g", "4">>, provider |-> S_vllm],
     [text |-> <<"*", "=", "c">>, key |-> <<"*">>, provider |-> <<"c">>],
     [text |-> <<"g", "4", "=">>, key |-> <<"g", "4">>, provider |-> <<>>],
     [text |-> <<"b", "a", "d">>, key |-> NoKey, provider |-> <<>>],
     [text |-> <<" ">>, key |-> NoKey, provider |-> <<>>]}
EntryLists == UNION {[1 .. len -> EntryInputs] : len \in 0 .. MaxEntries}
RECURSIVE JoinEntries(_)
JoinEntries(entries) ==
    IF entries = <<>> THEN <<>>
    ELSE IF Len(entries) = 1 THEN entries[1].text
    ELSE entries[1].text \o <<",">> \o JoinEntries(Tail(entries))
RegModels == {<<"g", "4">>, <<"g", "4", "t">>, <<"x">>}
DefaultInputs == {<<>>, <<<<>>>>, <<<<"V", "L", "L", "M">>>>, <<<<"z">>>>}
Callers == {1, 2}

RegInit ==
    /\ enabled = FALSE
    /\ clock = Epoch
    /\ buckets = <<>>
    /\ last_cleanup_ts = 0
    /\ admitted = [k \in Keys |-> <<>>]
    /\ denied_since = {}
    /\ last = NoAttempt
    /\ ConcIdle
    /\ GwIdle
    /\ StIdle
    /\ AdIdle
    /\ AuIdle
    /\ SsIdle
    /\ MainIdle
    /\ reg_entries \in EntryLists
    /\ reg_map = JoinEntries(reg_entries)
    /\ reg_default \in DefaultInputs
    /\ reg_cache = {}
    /\ reg_built = <<>>
    /\ reg_pend = [c \in Callers |-> <<>>]
    /\ reg_mid = 0
    /\ reg_done = 0
    /\ reg_last = <<>>
    /\ reg_returned = {}
    /\ reg_parsed = <<>>

RegFrame ==
    UNCHANGED <<rlVars, concVars, gwVars, stVars, adVars, auVars, ssVars, mainVars, reg_entries, reg_map,
                reg_default, reg_parsed>>

\* Whether another caller can run between the membership test and the
\* assignment of lines 62-63 and 66-67: the function awaits nothing.
RegSuspendsBetween == TRUE
RegSuspends == FALSE

\* resolve_provider_for_model up to the membership test (lines 72-73, 43-62).
RegCheck(c, model) ==
    /\ reg_pend[c] = <<>>
    /\ reg_mid = 0 \/ RegSuspends
    /\ reg_done + Cardinality({d \in Callers : reg_pend[d] # <<>>}) < MaxResolves
    /\ LET mapping == parse_model_provider_map(reg_map)
           provider_name == resolve_provider_name_for_model(model, mapping, reg_default)
           name == NormalizeName(provider_name)
       IN  reg_pend' = [reg_pend EXCEPT ![c] =
                           <<[model |-> model, provider_name |-> provider_name,
                              name |-> name, hit |-> CacheHas(reg_cache, name)]>>]
    /\ reg_mid' = c
    /\ UNCHANGED <<reg_cache, reg_built, reg_done, reg_last, reg_returned>>
    /\ RegFrame

\* The construction and the assignment on a miss, and the return (lines 63-64,
\* 67-68).
RegReturn(c) ==
    /\ reg_pend[c] # <<>>
    /\ LET pend == reg_pend[c][1]
           inst == Len(reg_built) + 1
           cache == IF pend.hit THEN reg_cache ELSE CachePut(reg_cache, pend.name, inst)
       IN  /\ reg_built' = IF pend.hit THEN reg_built
                           ELSE Append(reg_built, [name |-> pend.name,
                                                   class |-> ProviderClass(pend.name)])
           /\ reg_cache' = cache
           /\ reg_last' = <<[model |-> pend.model, provider_name |-> pend.provider_name,
                             name |-> pend.name, inst |-> CacheGet(cache, pend.name)]>>
           /\ reg_returned' = reg_returned
                              \cup {[name |-> pend.name, inst |-> CacheGet(cache, pend.name)]}
    /\ reg_pend' = [reg_pend EXCEPT ![c] = <<>>]
    /\ reg_mid' = IF reg_mid = c THEN 0 ELSE reg_mid
    /\ reg_done' = reg_done + 1
    /\ RegFrame

RegNext ==
    \/ \E c \in Callers, model \in RegModels : RegCheck(c, model)
    \/ \E c \in Callers : RegReturn(c)

SpecReg == RegInit /\ [][RegNext]_vars

\* The entries of the configuration as their author means them.
ExactEntries(model) ==
    {i \in DOMAIN reg_entries : reg_entries[i].key = model}
WildcardEntries(model) ==
    {i \in DOMAIN reg_entries :
        /\ reg_entries[i].key # NoKey
        /\ reg_entries[i].key # model
        /\ EndsWith(reg_entries[i].key, <<"*">>)
        /\ StartsWith(model, SubSeq(reg_entries[i].key, 1, Len(reg_entries[i].key) - 1))}
ProvidersOf(indices) == {reg_entries[i].provider : i \in indices}

\* C14: a model with an exact entry resolves to the provider name of an exact
\* entry, whatever wildcard entries match it and wherever they stand; a model
\* with no exact entry and a matching wildcard entry resolves to the name of a
\* matching wildcard entry; a model matched by no entry resolves to
\* LLM_PROVIDER (in lower case), or to "stub" when LLM_PROVIDER is not set.
C14_ExactBeforeWildcard ==
    reg_last # <<>>
    => LET model == reg_last[1].model
           name == reg_last[1].provider_name
       IN  /\ ExactEntries(model) # {} => name \in ProvidersOf(ExactEntries(model))
           /\ (ExactEntries(model) = {} /\ WildcardEntries(model) # {})
                 => name \in ProvidersOf(WildcardEntries(model))
           /\ (ExactEntries(model) = {} /\ WildcardEntries(model) = {})
                 => name = IF reg_default = <<>> THEN S_stub ELSE Lower(reg_default[1])

C14_Witness ==
    /\ reg_last # <<>>
    /\ reg_last[1].model = <<"g", "4">>
    /\ Len(reg_entries) = 2
    /\ reg_entries[1].text = <<"g", "*", "=", "b">>
    /\ reg_entries[2].text = <<"g", "4", "=", "a">>
    /\ reg_last[1].provider_name = <<"a">>

\* C15: at most one provider instance has been constructed per normalized
\* provider name, and all resolutions to one name returned the same instance,
\* among them the resolutions of callers that run interleaved.
C15_OneInstancePerName ==
    /\ \A i, j \in DOMAIN reg_built : reg_built[i].name = reg_built[j].name => i = j
    /\ \A r1, r2 \in reg_returned : r1.name = r2.name => r1.inst = r2.inst
    /\ \A e1, e2 \in reg_cache : e1.name = e2.name => e1 = e2

C15_Witness ==
    /\ reg_done = 2
    /\ Len(reg_built) = 1
    /\ Cardinality(reg_returned) = 1

\* C16: every resolution, for every model and every configuration text
\* (parts that are no entry, empty provider names, names of no backend),
\* returns a provider instance; a name that is no OpenAI-compatible alias
\* gives a StubProvider.
C16_ResolutionTotal ==
    /\ \A c \in DOMAIN reg_pend : reg_pend[c] # <<>> => ENABLED RegReturn(c)
    /\ reg_last # <<>>
          => /\ reg_last[1].inst \in DOMAIN reg_built
             /\ reg_built[reg_last[1].inst].name = reg_last[1].name
             /\ reg_built[reg_last[1].inst].class
                   \in {"StubProvider", "OpenAICompatibleProvider"}
             /\ reg_last[1].name \notin openai_compat_aliases
                   => reg_built[reg_last[1].inst].class = "StubProvider"

C16_Witness ==
    /\ reg_last # <<>>
    /\ Len(reg_entries) = 2
    /\ reg_entries[1].text = <<"b", "a", "d">>
    /\ reg_entries[2].text = <<"g", "4", "=">>
    /\ reg_last[1].model = <<"g", "4">>
    /\ reg_last[1].provider_name = <<>>
    /\ reg_built[reg_last[1].inst].class = "StubProvider"

(***************************************************************************)
(* OpenAICompatibleProvider (app/providers/openai_compat.py): what chat    *)
(* and chat_stream do with the backend's response. Model names and error   *)
(* messages are sequences of characters.                                   *)
(***************************************************************************)
MaxLines == 3

Contains(text, sub) ==
    \E i \in 0 .. Len(text) - Len(sub) : SubSeq(text, i + 1, i + Len(sub)) = sub
\* str.replace(" ", "")
RemoveSpaces(text) == SelectSeq(text, LAMBDA c : c # " ")

DigitChars == <<"0", "1", "2", "3", "4", "5", "6", "7", "8", "9">>
DigitVal(c) == (CHOOSE i \in DOMAIN DigitChars : DigitChars[i] = c) - 1
IsDigit(c) == \E i \in DOMAIN DigitChars : DigitChars[i] = c
RECURSIVE DigitsValue(_)
DigitsValue(digits) ==
    IF digits = <<>> THEN 0
    ELSE 10 * DigitsValue(SubSeq(digits, 1, Len(digits) - 1)) + DigitVal(digits[Len(digits)])
\* int(response.headers.get("Retry-After")) inside try/except: <<n>>, or <<>>
\* when the header is absent or int() raises.
ParseInt(header) ==
    IF header = <<>> THEN <<>>
    ELSE LET text == Strip(header[1])
             signed == text # <<>> /\ text[1] \in {"+", "-"}
             digits == IF signed THEN Tail(text) ELSE text
         IN  IF digits = <<>> \/ \E i \in DOMAIN digits : ~IsDigit(digits[i])
             THEN <<>>
             ELSE IF signed /\ text[1] = "-"
             THEN <<0 - DigitsValue(digits)>>
             ELSE <<DigitsValue(digits)>>

S_Unauthorized == <<"U", "n", "a", "u", "t", "h", "o", "r", "i", "z", "e", "d">>
S_Forbidden == <<"F", "o", "r", "b", "i", "d", "d", "e", "n">>
S_RateLimited == <<"R", "a", "t", "e", " ", "L", "i", "m", "i", "t", "e", "d">>
S_ModelNotFoundPrefix == <<"M", "o", "d", "e", "l", " ", "n", "o", "t", " ", "f", "o", "u", "n", "d", ":", " ">>
NotFoundKeys == {<<"m", "o", "d", "e", "l">>, <<"n", "o", "t", " ", "f", "o", "u", "n", "d">>, <<"u", "n", "k", "n", "o", "w", "n", " ", "m", "o", "d", "e", "l">>}

NoAdExc == [type |-> None, message |-> <<>>, retry_after |-> <<>>]
Raise(type, message) == [type |-> type, message |-> message, retry_after |-> <<>>]
Or(text, default) == IF text # <<>> THEN text ELSE default

\* err = response.json(), {} when that raises; a body that is JSON but no
\* object has no .get.
HasGet(body) == body.kind # "not_object"
\* str(err.get("error") or err.get("message") or "")
ErrorMessage(body) ==
    IF body.kind = "not_json" THEN <<>> ELSE Or(body.error, body.message)

\* The test of lines 189-195 and 329-335.
IsModelNotFound(model, message) ==
    /\ \E key \in NotFoundKeys : Contains(Lower(message), key)
    /\ Contains(Lower(message), RemoveSpaces(model))

\* Lines 161-199 of chat and 298-339 of chat_stream: the exception the status
\* leads to, NoAdExc when the call goes on.
ClassifyStatus(status, body, header, model) ==
    IF status \in {401, 403, 429}
    THEN IF ~HasGet(body) THEN Raise("AttributeError", <<>>)
         ELSE IF status = 401
         THEN Raise("ProviderUnauthorizedError", Or(ErrorMessage(body), S_Unauthorized))
         ELSE IF status = 403
         THEN Raise("ProviderForbiddenError", Or(ErrorMessage(body), S_Forbidden))
         ELSE [type |-> "ProviderRateLimitError",
               message |-> Or(ErrorMessage(body), S_RateLimited),
               retry_after |-> ParseInt(header)]
    ELSE IF status = 404 /\ ~HasGet(body) THEN Raise("AttributeError", <<>>)
    ELSE IF status = 404 /\ IsModelNotFound(model, ErrorMessage(body))
    THEN Raise("ProviderModelNotFoundError",
               Or(ErrorMessage(body), S_ModelNotFoundPrefix \o model))
    ELSE IF status < 200 \/ status > 299
    THEN Raise("HTTPStatusError", <<>>)
    ELSE NoAdExc

\* How each path reads the error body. The body is bytes: the UTF-8 encoding
\* of its text ("utf8"), that encoding followed by a byte that is no UTF-8
\* ("invalid_tail"), or the UTF-16 encoding of its text ("utf16").
\* chat, lines 162-165 and 183-186: response.json() parses the bytes in the
\* encoding it detects (UTF-8, UTF-16 or UTF-32) and raises on a byte that
\* does not decode; err is {} then.
ResponseJson(body) ==
    IF body.bytes = "invalid_tail" THEN [body EXCEPT !.kind = "not_json"] ELSE body
\* chat_stream, lines 300-305 and 318-323: the bytes are decoded as UTF-8 with
\* errors="ignore", which drops the bytes that do not decode, and json.loads
\* parses the text; UTF-16 bytes decode to text that is no JSON.
AreadJson(body) ==
    IF body.bytes = "utf16" THEN [body EXCEPT !.kind = "not_json"] ELSE body
ClassifyChat(status, body, header, model) ==
    ClassifyStatus(status, ResponseJson(body), header, model)
ClassifyStream(status, body, header, model) ==
    ClassifyStatus(status, AreadJson(body), header, model)

\* One pass of the loop over aiter_lines, lines 340-372. A line is its
\* `data: ` prefix and the document after it: blank, the sentinel, text that
\* is no JSON, JSON that is no object, or an object with the shapes of
\* choices, choices[0], delta and content.
LineStepPrefixedSentinel(line) ==
    IF line.doc = "blank" /\ ~line.prefix THEN [kind |-> "continue", content |-> None]
    ELSE IF line.doc = "done" /\ line.prefix THEN [kind |-> "break", content |-> None]
    ELSE IF line.doc \in {"blank", "not_json", "done"}
    THEN [kind |-> "continue", content |-> None]
    ELSE IF line.doc = "not_object" THEN [kind |-> "raise", content |-> "AttributeError"]
    ELSE IF line.choices \in {"missing", "empty"} THEN [kind |-> "continue", content |-> None]
    ELSE IF line.choices = "not_list" THEN [kind |-> "raise", content |-> "KeyError"]
    ELSE IF line.first = "not_dict" THEN [kind |-> "raise", content |-> "AttributeError"]
    ELSE IF line.delta = "missing" THEN [kind |-> "continue", content |-> None]
    ELSE IF line.delta = "not_dict" THEN [kind |-> "raise", content |-> "AttributeError"]
    ELSE IF line.content \in {None, ""} THEN [kind |-> "continue", content |-> None]
    ELSE [kind |-> "yield", content |-> line.content]
LineStep(line) ==
    IF line.doc = "blank" /\ ~line.prefix THEN [kind |-> "continue", content |-> None]
    ELSE IF line.doc = "done" THEN [kind |-> "break", content |-> None]
    ELSE IF line.doc \in {"blank", "not_json"} THEN [kind |-> "continue", content |-> None]
    ELSE IF line.doc = "not_object" THEN [kind |-> "raise", content |-> "AttributeError"]
    ELSE IF line.choices \in {"missing", "empty"} THEN [kind |-> "continue", content |-> None]
    ELSE IF line.choices = "not_list" THEN [kind |-> "raise", content |-> "KeyError"]
    ELSE IF line.first = "not_dict" THEN [kind |-> "raise", content |-> "AttributeError"]
    ELSE IF line.delta = "missing" THEN [kind |-> "continue", content |-> None]
    ELSE IF line.delta = "not_dict" THEN [kind |-> "raise", content |-> "AttributeError"]
    ELSE IF line.content \in {None, ""} THEN [kind |-> "continue", content |-> None]
    ELSE [kind |-> "yield", content |-> line.content]

Frame(prefix, content) ==
    [prefix |-> prefix, doc |-> "object", choices |-> "list", first |-> "dict",
     delta |-> "dict", content |-> content]
Other(prefix, doc) ==
    [prefix |-> prefix, doc |-> doc, choices |-> "missing", first |-> "dict",
     delta |-> "missing", content |-> None]
LineInputs ==
    {Frame(TRUE, "hel"), Frame(FALSE, "lo"), Frame(TRUE, ""), Frame(TRUE, None),
     Other(TRUE, "not_json"), Other(FALSE, "blank"), Other(TRUE, "done"),
     Other(FALSE, "done"),
     Other(TRUE, "object"), Other(TRUE, "not_object"),
     [Frame(TRUE, "x") EXCEPT !.choices = "empty"],
     [Frame(TRUE, "x") EXCEPT !.choices = "not_list"],
     [Frame(TRUE, "x") EXCEPT !.first = "not_dict"],
     [Frame(TRUE, "x") EXCEPT !.delta = "missing"],
     [Frame(TRUE, "x") EXCEPT !.delta = "not_dict"]}
LineLists == UNION {[1 .. len -> LineInputs] : len \in 0 .. MaxLines}

S_m1 == <<"m", "1">>
AdModels == {S_m1, <<"M", "1">>, <<"m", " ", "1">>}
MessageTexts ==
    {<<>>, <<"n", "o", " ", "m", "o", "d", "e", "l", " ", "m", "1">>, <<"n", "o", " ", "m", "o", "d", "e", "l", " ", "M", "1">>, <<"N", "o", " ", "M", "o", "d", "e", "l", " ", "m", " ", "1">>,
     <<"m", "1", " ", "g", "o", "n", "e">>, <<"n", "o", "t", " ", "f", "o", "u", "n", "d">>}
JsonBody(error, message) ==
    [kind |-> "object", error |-> error, message |-> message, bytes |-> "utf8"]
NotJsonBody == [kind |-> "not_json", error |-> <<>>, message |-> <<>>, bytes |-> "utf8"]
NotObjectBody == [kind |-> "not_object", error |-> <<>>, message |-> <<>>, bytes |-> "utf8"]
BodyInputs404 ==
    {JsonBody(text, <<>>) : text \in MessageTexts}
    \cup {JsonBody(<<>>, <<"n", "o", " ", "m", "o", "d", "e", "l", " ", "m", "1">>), NotJsonBody, NotObjectBody}
BodyInputsAuth == {JsonBody(<<"d", "e", "n", "i", "e", "d">>, <<>>), JsonBody(<<>>, <<>>), NotJsonBody, NotObjectBody}
S_NoModelM1 == <<"n", "o", " ", "m", "o", "d", "e", "l", " ", "m", "1">>
BodyInputsBytes ==
    {[JsonBody(S_NoModelM1, <<>>) EXCEPT !.bytes = b] : b \in {"invalid_tail", "utf16"}}
RetryAfterInputs == {<<>>, <<<<"3", "0">>>>, <<<<" ", "7", " ">>>>, <<<<"1", ".", "5">>>>, <<<<"s", "o", "o", "n">>>>}
AdOps == {"chat", "chat_stream"}
AdCall(op, model, status, body_, header, lines) ==
    [op |-> op, model |-> model, status |-> status, body |-> body_,
     retry_after |-> header, lines |-> lines]
AdInputs ==
    {AdCall(op, S_m1, status, b, <<>>, <<>>) :
        op \in AdOps, status \in {401, 403, 500, 503}, b \in BodyInputsAuth}
    \cup {AdCall(op, S_m1, 429, b, h, <<>>) :
             op \in AdOps, b \in BodyInputsAuth, h \in RetryAfterInputs}
    \cup {AdCall(op, model, 404, b, <<>>, <<>>) :
             op \in AdOps, model \in AdModels, b \in BodyInputs404}
    \cup {AdCall(op, S_m1, status, b, <<<<"3", "0">>>>, <<>>) :
             op \in AdOps, status \in {401, 404, 429}, b \in BodyInputsBytes}
    \cup {AdCall("chat", S_m1, 200, NotJsonBody, <<>>, <<>>)}
    \cup {AdCall("chat_stream", S_m1, 200, NotJsonBody, <<>>, lines) : lines \in LineLists}

\* _headers, lines 91-109: the caller's credential when it is not blank, else
\* the configured key as a bearer token, else no Authorization header.
S_BearerSp == <<"B", "e", "a", "r", "e", "r", " ">>
S_BearerIn == S_BearerSp \o <<"i", "n">>
Truthy(opt) == opt # <<>> /\ opt[1] # <<>>
HeadersStaticFirst(authorization, env_api_key) ==
    IF Truthy(env_api_key)
    THEN <<S_BearerSp \o env_api_key[1]>>
    ELSE IF Truthy(authorization) /\ Strip(authorization[1]) # <<>>
    THEN <<authorization[1]>>
    ELSE <<>>
Headers(authorization, env_api_key) ==
    IF Truthy(authorization) /\ Strip(authorization[1]) # <<>>
    THEN <<authorization[1]>>
    ELSE IF Truthy(env_api_key)
    THEN <<S_BearerSp \o env_api_key[1]>>
    ELSE <<>>

AuthInputs == {<<>>, <<<<>>>>, <<<<" ">>>>, <<S_BearerIn>>, <<<<" ", "t", " ">>>>}
EnvKeyInputs == {<<>>, <<<<>>>>, <<<<"k", "1">>>>}
DefaultCred == [auth |-> <<S_BearerIn>>, env |-> <<>>]
CredInputs == [auth : AuthInputs, env : EnvKeyInputs]

\* The JSON of a completion. A key is <<>> when the object does not have it;
\* a choices or usage or message of kind "null" is the JSON null.
Get(opt, default) == IF opt = <<>> THEN default ELSE opt[1]
MessageObj(role, content) == [kind |-> "object", role |-> role, content |-> content]
NoMessage(kind) == [kind |-> kind, role |-> <<>>, content |-> <<>>]
ChoiceObj(index, message, finish_reason) ==
    [index |-> index, message |-> message, finish_reason |-> finish_reason]
UsageObj(p, c, t) ==
    [kind |-> "object", prompt_tokens |-> p, completion_tokens |-> c, total_tokens |-> t]
NoUsage(kind) ==
    [kind |-> kind, prompt_tokens |-> <<>>, completion_tokens |-> <<>>, total_tokens |-> <<>>]
ChoiceList(items) == [kind |-> "list", items |-> items]
NoChoices(kind) == [kind |-> kind, items |-> <<>>]
Completion(id, choices, usage) ==
    [kind |-> "object", id |-> id, choices |-> choices, usage |-> usage]
NoData == [kind |-> "none", id |-> <<>>, choices |-> NoChoices("absent"),
           usage |-> NoUsage("absent")]

\* Lines 204-212: data.get("choices", []), replaced when it is falsy.
DefaultChoiceRaw ==
    ChoiceObj(<<0>>, MessageObj(<<"assistant">>, <<"">>), <<"stop">>)
ChoicesRawNoDefault(data) ==
    IF data.choices.kind = "list" THEN data.choices.items ELSE <<>>
ChoicesRaw(data) ==
    LET choices_raw == IF data.choices.kind = "list" THEN data.choices.items ELSE <<>>
    IN  IF choices_raw = <<>> THEN <<DefaultChoiceRaw>> ELSE choices_raw

\* Lines 214-226: choice.get("message") or {}, and the defaults of the gets.
MessageRaw(choice) ==
    IF choice.message.kind = "object" THEN choice.message ELSE NoMessage("object")
MapChoice(choice) ==
    [index |-> Get(choice.index, 0),
     role |-> Get(MessageRaw(choice).role, "assistant"),
     content |-> Get(MessageRaw(choice).content, ""),
     finish_reason |-> Get(choice.finish_reason, None)]
\* Message(role: str, content: str) refuses None.
ChoiceInvalid(choice) ==
    MessageRaw(choice).role = <<None>> \/ MessageRaw(choice).content = <<None>>

\* Lines 229-234: data.get("usage") or {}, each counter defaulting to 0.
MapUsage(data) ==
    LET usage_raw == IF data.usage.kind = "object" THEN data.usage ELSE NoUsage("object")
    IN  [prompt_tokens |-> Get(usage_raw.prompt_tokens, 0),
         completion_tokens |-> Get(usage_raw.completion_tokens, 0),
         total_tokens |-> Get(usage_raw.total_tokens, 0)]

\* Lines 200-242: response.json() and the mapping into a ChatResponse
\* (`created` is left out).
MapResponse(data) ==
    IF data.kind = "not_json"
    THEN [exc |-> Raise("JSONDecodeError", <<>>), resp |-> <<>>]
    ELSE IF data.kind = "not_object"
    THEN [exc |-> Raise("AttributeError", <<>>), resp |-> <<>>]
    ELSE IF \E i \in DOMAIN ChoicesRaw(data) : ChoiceInvalid(ChoicesRaw(data)[i])
    THEN [exc |-> Raise("ValidationError", <<>>), resp |-> <<>>]
    ELSE [exc |-> NoAdExc,
          resp |-> <<[id |-> Get(data.id, "ollama"),
                      object |-> "chat.completion",
                      choices |-> [i \in DOMAIN ChoicesRaw(data) |->
                                      MapChoice(ChoicesRaw(data)[i])],
                      usage |-> MapUsage(data)]>>]

ChoicesInputs ==
    {NoChoices("absent"), NoChoices("null"), ChoiceList(<<>>),
     ChoiceList(<<ChoiceObj(<<0>>, MessageObj(<<"assistant">>, <<"a">>), <<"stop">>)>>),
     ChoiceList(<<ChoiceObj(<<0>>, MessageObj(<<"assistant">>, <<"b">>), <<"stop">>),
                  ChoiceObj(<<1>>, MessageObj(<<"assistant">>, <<"a">>), <<"length">>)>>),
     ChoiceList(<<ChoiceObj(<<>>, NoMessage("absent"), <<>>),
                  ChoiceObj(<<1>>, MessageObj(<<>>, <<"a">>), <<>>)>>),
     ChoiceList(<<ChoiceObj(<<0>>, NoMessage("null"), <<"stop">>)>>),
     ChoiceList(<<ChoiceObj(<<0>>, MessageObj(<<"assistant">>, <<None>>), <<"stop">>)>>)}
UsageInputs ==
    {NoUsage("absent"), NoUsage("null"), NoUsage("object"),
     UsageObj(<<3>>, <<4>>, <<7>>), UsageObj(<<3>>, <<>>, <<>>)}
DefaultData ==
    Completion(<<"c1">>,
               ChoiceList(<<ChoiceObj(<<0>>, MessageObj(<<"assistant">>, <<"a">>),
                                      <<"stop">>)>>),
               UsageObj(<<3>>, <<4>>, <<7>>))
CompletionInputs ==
    {Completion(id, c, u) : id \in {<<>>, <<"c1">>}, c \in ChoicesInputs, u \in UsageInputs}
    \cup {[NoData EXCEPT !.kind = "not_json"], [NoData EXCEPT !.kind = "not_object"]}

Compat == "OpenAICompatibleProvider"
Stub == "StubProvider"
DataFor(call) ==
    IF call.op = "chat" /\ call.status = 200 THEN CompletionInputs ELSE {NoData}
CredsFor(call, data) ==
    IF call.status = 200 /\ call.lines = <<>> /\ data \in {NoData, DefaultData}
    THEN CredInputs
    ELSE {DefaultCred}

AdStart ==
    /\ ad_pc = "call"
    /\ ad_seen = <<>>
    /\ ad_out = <<>>
    /\ ad_exc = NoAdExc
    /\ ad_returned = FALSE
    /\ ad_conn = FALSE
    /\ ad_headers = <<>>
    /\ ad_resp = <<>>
    /\ ad_open = FALSE
    /\ ad_cancel = <<>>
    /\ ad_calls = 1

AdCallFrom(calls) ==
    \/ \E call \in calls :
          \E data \in DataFor(call) :
             \E cred \in CredsFor(call, data) :
                /\ ad_provider = Compat
                /\ ad_op = call.op
                /\ ad_model = call.model
                /\ ad_status = call.status
                /\ ad_body = call.body
                /\ ad_retry_after = call.retry_after
                /\ ad_lines = call.lines
                /\ ad_data = data
                /\ ad_auth = cred.auth
                /\ ad_env_key = cred.env
    \/ /\ ad_provider = Stub
       /\ ad_op \in AdOps
       /\ ad_model = S_m1
       /\ ad_status = 0
       /\ ad_body = NotJsonBody
       /\ ad_retry_after = <<>>
       /\ ad_lines = <<>>
       /\ ad_data = NoData
       /\ ad_auth = DefaultCred.auth
       /\ ad_env_key = DefaultCred.env

AdInit ==
    /\ enabled = FALSE
    /\ clock = Epoch
    /\ buckets = <<>>
    /\ last_cleanup_ts = 0
    /\ admitted = [k \in Keys |-> <<>>]
    /\ denied_since = {}
    /\ last = NoAttempt
    /\ ConcIdle
    /\ GwIdle
    /\ StIdle
    /\ RegIdle
    /\ AuIdle
    /\ SsIdle
    /\ MainIdle
    /\ AdCallFrom(AdInputs)
    /\ AdStart

AdFrame == UNCHANGED <<rlVars, concVars, gwVars, stVars, regVars, auVars, ssVars, mainVars,
                       ad_provider, ad_op, ad_model, ad_status, ad_body,
                       ad_retry_after, ad_data, ad_auth, ad_env_key, ad_calls>>

\* The adapter opens its AsyncClient and sends the request with the headers
\* of _headers (lines 152-159 and 291-297).
\* Whether the client is open once the call has left
\* `async with httpx.AsyncClient(...) as client` (lines 152-154, 291) and, in
\* chat_stream, `async with client.stream(...)` (292-297): the exits close the
\* response and the client however the block is left, by a return, by an
\* exception raised inside it or by a cancellation.
OpenAfterExitOnReturnOnly(how) == how # "return"
OpenAfterExit(how) == FALSE

AdSend ==
    /\ ad_pc = "call"
    /\ ad_provider = Compat
    /\ ad_headers' = Headers(ad_auth, ad_env_key)
    /\ ad_open' = TRUE
    /\ ad_pc' = "status"
    /\ UNCHANGED <<ad_lines, ad_seen, ad_out, ad_exc, ad_returned, ad_conn,
                   ad_resp, ad_cancel>>
    /\ AdFrame

\* The response has arrived: the status checks of lines 161-199 and 298-339.
\* chat leaves its `async with`, which closes the client, and maps the
\* completion; chat_stream goes on to read the lines.
AdClassify ==
    /\ ad_pc = "status"
    /\ LET exc == IF ad_op = "chat"
                  THEN ClassifyChat(ad_status, ad_body, ad_retry_after, ad_model)
                  ELSE ClassifyStream(ad_status, ad_body, ad_retry_after, ad_model)
           mapped == MapResponse(ad_data)
       IN  IF exc.type # None
           THEN /\ ad_exc' = exc
                /\ ad_pc' = "done"
                /\ ad_open' = OpenAfterExit("raise")
                /\ UNCHANGED <<ad_returned, ad_resp>>
           ELSE IF ad_op = "chat_stream"
           THEN /\ ad_pc' = "lines"
                /\ UNCHANGED <<ad_exc, ad_returned, ad_resp, ad_open>>
           ELSE /\ ad_exc' = mapped.exc
                /\ ad_resp' = mapped.resp
                /\ ad_returned' = (mapped.exc.type = None)
                /\ ad_pc' = "done"
                /\ ad_open' = OpenAfterExit("return")
    /\ UNCHANGED <<ad_lines, ad_seen, ad_out, ad_conn, ad_headers, ad_cancel>>
    /\ AdFrame

\* One line of the stream.
AdLine ==
    /\ ad_pc = "lines"
    /\ ad_lines # <<>>
    /\ LET step == LineStep(Head(ad_lines))
       IN  /\ ad_seen' = Append(ad_seen, Head(ad_lines))
           /\ ad_lines' = Tail(ad_lines)
           /\ ad_out' = IF step.kind = "yield" THEN Append(ad_out, step.content) ELSE ad_out
           /\ ad_exc' = IF step.kind = "raise" THEN Raise(step.content, <<>>) ELSE ad_exc
           /\ ad_returned' = (step.kind = "break")
           /\ ad_pc' = IF step.kind \in {"raise", "break"} THEN "done" ELSE "lines"
           /\ ad_open' = IF step.kind = "raise" THEN OpenAfterExit("raise")
                          ELSE IF step.kind = "break" THEN OpenAfterExit("return")
                          ELSE ad_open
    /\ UNCHANGED <<ad_conn, ad_headers, ad_resp, ad_cancel>>
    /\ AdFrame

\* `async for line in response.aiter_lines()` ends when the backend has
\* closed the stream and every line has been taken.
ExhaustedNever(lines) == FALSE
Exhausted(lines) == lines = <<>>

\* aiter_lines is exhausted.
AdEnd ==
    /\ ad_pc = "lines"
    /\ Exhausted(ad_lines)
    /\ ad_returned' = TRUE
    /\ ad_pc' = "done"
    /\ ad_open' = OpenAfterExit("return")
    /\ UNCHANGED <<ad_lines, ad_seen, ad_out, ad_exc, ad_conn, ad_headers, ad_resp,
                   ad_cancel>>
    /\ AdFrame

\* The connection fails: the post, or the read of the next line, raises.
AdConnectionError ==
    /\ ad_pc \in {"status", "lines"}
    /\ ad_exc' = Raise("TransportError", <<>>)
    /\ ad_conn' = TRUE
    /\ ad_pc' = "done"
    /\ ad_open' = OpenAfterExit("raise")
    /\ UNCHANGED <<ad_lines, ad_seen, ad_out, ad_returned, ad_headers, ad_resp,
                   ad_cancel>>
    /\ AdFrame

\* Where a call goes when CancelledError or GeneratorExit is raised at the
\* await or the yield it is suspended at: chat and chat_stream catch neither
\* (the handlers of lines 163-199, 300-339 and 360 are for Exception and
\* JSONDecodeError and enclose neither an await of a line nor the yield), so
\* the exception leaves both `async with` blocks and the call is over.
CancelledPcKeepsReading(at) == at
CancelledPc(at) == "done"

\* The inbound client disconnects while the call is suspended.
AdCancel ==
    /\ ad_pc \in {"status", "lines", "stub"}
    /\ ad_cancel = <<>>
    /\ ad_cancel' = <<[seen |-> ad_seen, out |-> ad_out]>>
    /\ ad_exc' = Raise("CancelledError", <<>>)
    /\ ad_pc' = CancelledPc(ad_pc)
    /\ ad_open' = OpenAfterExit("cancel")
    /\ UNCHANGED <<ad_lines, ad_seen, ad_out, ad_returned, ad_conn, ad_headers, ad_resp>>
    /\ AdFrame

\* StubProvider.chat returns its response; chat_stream starts its loop.
AdStubCall ==
    /\ ad_pc = "call"
    /\ ad_provider = Stub
    /\ IF ad_op = "chat"
       THEN /\ ad_resp' = <<StubChatResponse>>
            /\ ad_returned' = TRUE
            /\ ad_pc' = "done"
       ELSE /\ ad_pc' = "stub"
            /\ UNCHANGED <<ad_resp, ad_returned>>
    /\ UNCHANGED <<ad_lines, ad_seen, ad_out, ad_exc, ad_conn, ad_headers, ad_open,
                   ad_cancel>>
    /\ AdFrame

\* StubProvider.chat_stream yields its next part (lines 27-28).
AdStubYield ==
    /\ ad_pc = "stub"
    /\ Len(ad_out) < Len(StubParts)
    /\ ad_out' = Append(ad_out, StubParts[Len(ad_out) + 1])
    /\ UNCHANGED <<ad_pc, ad_lines, ad_seen, ad_exc, ad_returned, ad_conn, ad_headers,
                   ad_resp, ad_open, ad_cancel>>
    /\ AdFrame

\* StubProvider.chat_stream returns after its last part (line 29).
AdStubReturn ==
    /\ ad_pc = "stub"
    /\ Len(ad_out) = Len(StubParts)
    /\ ad_returned' = TRUE
    /\ ad_pc' = "done"
    /\ UNCHANGED <<ad_lines, ad_seen, ad_out, ad_exc, ad_conn, ad_headers, ad_resp,
                   ad_open, ad_cancel>>
    /\ AdFrame

AdNext ==
    \/ AdSend
    \/ AdClassify
    \/ AdLine
    \/ AdEnd
    \/ AdConnectionError
    \/ AdCancel
    \/ AdStubCall
    \/ AdStubYield
    \/ AdStubReturn

SpecAdapter == AdInit /\ [][AdNext]_vars

OpaqueFailures == {"HTTPStatusError", "AttributeError", "KeyError", "TransportError"}
AnsweredWith(status_set) ==
    ad_pc = "done" /\ ~ad_conn /\ ad_cancel = <<>> /\ ad_status \in status_set

\* The body names the model as unknown: its message mentions one of the three
\* phrases and contains the requested model name, letter case apart.
BodyNamesModel ==
    /\ ad_body.kind = "object"
    /\ \E key \in NotFoundKeys : Contains(Lower(Or(ad_body.error, ad_body.message)), key)
    /\ Contains(Lower(Or(ad_body.error, ad_body.message)), Lower(ad_model))

\* C17: on a backend 404, ProviderModelNotFoundError is raised exactly when
\* the body's message mentions "model", "not found" or "unknown model" and
\* contains the requested model name, for every model name; every other 404
\* ends in an opaque failure.
C17_NotFoundOnlyForNamedModel ==
    AnsweredWith({404})
    => /\ ad_exc.type = "ProviderModelNotFoundError" <=> BodyNamesModel
       /\ ~BodyNamesModel => ad_exc.type \in OpaqueFailures
       /\ ~ad_returned

\* C18: 401 raises ProviderUnauthorizedError, 403 ProviderForbiddenError, 429
\* ProviderRateLimitError with retry_after the Retry-After header when it
\* parses as an integer and none otherwise, every other status outside 2xx
\* (404 apart) an opaque failure; nothing is returned and nothing is yielded.
C18_StatusClassification ==
    (AnsweredWith({401, 403, 429, 500, 503}))
    => /\ ad_status = 401 => ad_exc.type = "ProviderUnauthorizedError"
       /\ ad_status = 403 => ad_exc.type = "ProviderForbiddenError"
       /\ ad_status = 429 => /\ ad_exc.type = "ProviderRateLimitError"
                             /\ ad_exc.retry_after = ParseInt(ad_retry_after)
       /\ ad_status \in {500, 503} => ad_exc.type \in OpaqueFailures
       /\ ~ad_returned
       /\ ad_out = <<>>

\* What the lines hold: the non-empty choices[0].delta.content of each line
\* before the first sentinel.
IsSentinel(line) == line.doc = "done"
ContentOf(line) ==
    IF /\ line.doc = "object" /\ line.choices = "list" /\ line.first = "dict"
       /\ line.delta = "dict" /\ line.content \notin {None, ""}
    THEN <<line.content>>
    ELSE <<>>
RECURSIVE ContentsBeforeSentinel(_)
ContentsBeforeSentinel(lines) ==
    IF lines = <<>> \/ IsSentinel(Head(lines)) THEN <<>>
    ELSE ContentOf(Head(lines)) \o ContentsBeforeSentinel(Tail(lines))
StreamOver == ad_op = "chat_stream" /\ AnsweredWith({200})

\* C19: for every sequence of backend lines, the fragments chat_stream has
\* yielded when it is over are, in order, the non-empty contents of the lines
\* before the first sentinel; blank lines and lines that do not parse yield
\* nothing.
C19_FragmentsAreContents ==
    StreamOver => ad_out = ContentsBeforeSentinel(ad_seen \o ad_lines)

\* C20: on a 2xx stream whose connection does not fail, no frame makes
\* chat_stream fail: it ends by returning, after the sentinel or the last line.
C20_MalformedFramesSwallowed ==
    StreamOver
    => /\ ad_exc.type = None
       /\ ad_returned
       /\ ad_lines = <<>> \/ (ad_seen # <<>> /\ IsSentinel(ad_seen[Len(ad_seen)]))

(***************************************************************************)
(* Sampling-parameter ranges, checked under SpecGW.                        *)
(***************************************************************************)
ParamNames ==
    {"temperature", "top_p", "max_tokens", "frequency_penalty",
     "presence_penalty", "n"}
Supplied(b) ==
    {name \in ParamNames :
        CASE name = "temperature" -> b.temperature # <<>>
          [] name = "top_p" -> b.top_p # <<>>
          [] name = "max_tokens" -> b.max_tokens # <<>>
          [] name = "frequency_penalty" -> b.frequency_penalty # <<>>
          [] name = "presence_penalty" -> b.presence_penalty # <<>>
          [] name = "n" -> b.n # <<>>}
ParamDetails == {ParamDetail(name) : name \in ParamNames}

\* C29: a validated request is answered 400 whenever a supplied sampling
\* parameter lies outside its range (temperature [0,2], top_p [0,1],
\* frequency_penalty and presence_penalty [-2,2], max_tokens > 0, n > 0);
\* when every supplied parameter is inside its range no parameter detail is
\* the reason of a rejection; a rejection that names a parameter names one
\* that was supplied and is out of range.
C29_ParameterRanges ==
    Validated =>
        /\ OutOfRange(gw_http.body) # {}
              => (InLog("validate:400") /\ gw_resp.status = 400 /\ ~Invoked)
        /\ OutOfRange(gw_http.body) = {}
              => ~(InLog("validate:400") /\ gw_resp.detail \in ParamDetails)
        /\ \A name \in ParamNames :
              (InLog("validate:400") /\ gw_resp.detail = ParamDetail(name))
                 => (name \in Supplied(gw_http.body)
                     /\ name \in OutOfRange(gw_http.body))

\* A request with every parameter on a bound of its range is accepted, and
\* the validator has acted.
C29_Witness ==
    /\ InLog("validate:ok")
    /\ gw_http.body.temperature \in {<<0>>, <<2>>}
    /\ Supplied(gw_http.body) # {}
    /\ OutOfRange(gw_http.body) = {}

(***************************************************************************)
(* Outcome reporting of a streamed invocation, checked under SpecStream.   *)
(* st_metrics holds the outcome label of every increment of                *)
(* provider_requests_total made by the finally block of event_gen; st_end  *)
(* tells how the call of chat_stream ended: exhausted, raised, or          *)
(* cancelled while the stream was still open.                              *)
(***************************************************************************)
StOver == st_pc \in {"finished", "aborted"}
StCompleted == st_end # <<>> /\ st_end[1] = "end"

\* C23: the outcome of a chat_stream invocation is reported exactly once,
\* after the invocation has ended, and it is "error" exactly when the
\* invocation did not complete (it raised or the client abandoned the open
\* stream) and "success" otherwise.
C23_OutcomeReportedOnce ==
    /\ Len(st_metrics) <= 1
    /\ ~StOver => st_metrics = <<>>
    /\ StOver =>
          /\ Len(st_metrics) = 1
          /\ st_metrics[1] = "error" <=> ~StCompleted
          /\ st_metrics[1] = "success" <=> StCompleted

(***************************************************************************)
(* The periodic sweep, checked under SpecRL. A step that answers a request *)
(* leaves the clock alone; the sweep ran in it exactly when                *)
(* _last_cleanup_ts changed. The bucket of the request's own key is pruned *)
(* again and possibly appended to by the rest of the middleware.           *)
(***************************************************************************)
InWindow(bucket, now) ==
    SelectSeq(bucket, LAMBDA t : t >= now - RATE_LIMIT_WINDOW_SECONDS)
SweepRan == last_cleanup_ts' # last_cleanup_ts
AnswersRequest == enabled /\ clock' = clock /\ last'.key # None

\* C25: the sweep runs at most once per cleanup interval and not on every
\* call; when it runs at time now it removes every key whose timestamps are
\* all older than now - W, and every surviving bucket keeps exactly its
\* timestamps that are not older than now - W.
C25_SweepStep ==
    AnswersRequest =>
        /\ SweepRan => /\ clock - last_cleanup_ts >= CLEANUP_INTERVAL_SECONDS
                       /\ last_cleanup_ts' = clock
        /\ SweepRan =>
              \A k \in DOMAIN buckets :
                 IF k = last'.key
                 THEN /\ k \in DOMAIN buckets'
                      /\ buckets'[k] \in {InWindow(buckets[k], clock),
                                          Append(InWindow(buckets[k], clock), clock)}
                 ELSE IF InWindow(buckets[k], clock) = <<>>
                 THEN k \notin DOMAIN buckets'
                 ELSE /\ k \in DOMAIN buckets'
                      /\ buckets'[k] = InWindow(buckets[k], clock)
        /\ ~SweepRan =>
              \A k \in DOMAIN buckets \ {last'.key} :
                 k \in DOMAIN buckets' /\ buckets'[k] = buckets[k]

C25_PeriodicSweep == [][C25_SweepStep]_vars

\* A second sweep has just run: the requester's bucket held an expired
\* timestamp before the call, and another key survived the sweep.
C25_Witness ==
    /\ enabled
    /\ last.key # None
    /\ last.now = clock
    /\ last_cleanup_ts = clock
    /\ clock >= Epoch + CLEANUP_INTERVAL_SECONDS
    /\ last.pre # <<>>
    /\ Head(last.pre) < clock - RATE_LIMIT_WINDOW_SECONDS
    /\ \E k \in DOMAIN buckets \ {last.key} : buckets[k] # <<>>

(***************************************************************************)
(* Derivation of the rate-limit key by the limiter app/main.py registers,  *)
(* checked under SpecGW.                                                   *)
(***************************************************************************)
CredentialPresent(http) == http.authorization # None /\ http.authorization # ""
ClientHostKnown(http) == http.host # None /\ http.host # ""
ExpectedKey(http) ==
    IF CredentialPresent(http) THEN http.authorization
    ELSE IF ClientHostKnown(http) THEN http.host
    ELSE "anonymous"
LimiterActed == enabled /\ gw_pc # "rate_limit"

\* C26: a request that reaches the enabled limiter is counted in the bucket
\* of its Authorization credential when it has one, else of its client host
\* when that is known, else of "anonymous"; in particular a request with
\* neither is admitted or denied under "anonymous" and the limiter does not
\* fail on it.
C26_KeyDerivation ==
    LimiterActed =>
        /\ ~InLog("rate_limit:raise")
        /\ InLog("rate_limit:admit") \/ InLog("rate_limit:deny")
        /\ DOMAIN buckets = {ExpectedKey(gw_http)}

(***************************************************************************)
(* The adapter's mapping of a completion, its outbound credential and its  *)
(* cancellation, checked under SpecAdapter.                                *)
(***************************************************************************)
ChatReturned == ad_provider = Compat /\ ad_op = "chat" /\ ad_pc = "done" /\ ad_returned
BackendChoices == IF ad_data.choices.kind = "list" THEN ad_data.choices.items ELSE <<>>
ZeroUsage == [prompt_tokens |-> 0, completion_tokens |-> 0, total_tokens |-> 0]

\* C21: the ChatResponse chat returns for a successful completion has usage
\* counters all zero when the completion has no usage; exactly one choice,
\* of role assistant and with empty content, when the completion's choices
\* are absent or empty; otherwise one choice per backend choice, in the
\* backend's order; and in every case at least one choice.
C21_ResponseMapping ==
    ChatReturned =>
        /\ ad_resp # <<>>
        /\ ad_data.usage.kind = "absent" => ad_resp[1].usage = ZeroUsage
        /\ BackendChoices = <<>>
              => /\ Len(ad_resp[1].choices) = 1
                 /\ ad_resp[1].choices[1].role = "assistant"
                 /\ ad_resp[1].choices[1].content = ""
        /\ BackendChoices # <<>>
              => /\ Len(ad_resp[1].choices) = Len(BackendChoices)
                 /\ \A i \in DOMAIN BackendChoices :
                       (/\ BackendChoices[i].message.kind = "object"
                        /\ BackendChoices[i].message.content # <<>>)
                       => ad_resp[1].choices[i].content
                             = BackendChoices[i].message.content[1]
        /\ Len(ad_resp[1].choices) >= 1

\* A completion without usage and with two choices has been mapped.
C21_Witness ==
    /\ ChatReturned
    /\ ad_data.usage.kind = "absent"
    /\ Len(BackendChoices) = 2
    /\ ad_resp[1].choices[1].content = "b"
    /\ ad_resp[1].choices[2].content = "a"

CallerCredential ==
    ad_auth # <<>> /\ \E i \in DOMAIN ad_auth[1] : ad_auth[1][i] \notin Whitespace
StaticCredential == ad_env_key # <<>> /\ ad_env_key[1] # <<>>
RequestSent == ad_provider = Compat /\ ad_pc # "call"

\* C22: the Authorization header of the request chat or chat_stream sends is
\* the caller's credential, verbatim, when that is present and not blank,
\* whether or not a static credential is configured; else "Bearer " followed
\* by the static credential when one is configured; else there is no
\* Authorization header.
C22_CredentialPrecedence ==
    RequestSent =>
        IF CallerCredential THEN ad_headers = <<ad_auth[1]>>
        ELSE IF StaticCredential THEN ad_headers = <<S_BearerSp \o ad_env_key[1]>>
        ELSE ad_headers = <<>>

\* chat_stream has sent a caller credential with surrounding blanks as it
\* came, although a static credential is configured.
C22_Witness ==
    /\ RequestSent
    /\ ad_op = "chat_stream"
    /\ StaticCredential
    /\ ad_auth = <<<<" ", "t", " ">>>>
    /\ ad_headers = ad_auth

StreamCancelled == ad_provider = Compat /\ ad_op = "chat_stream" /\ ad_cancel # <<>>

\* C24: once the cancellation of a chat_stream call has been delivered, the
\* call is over: no further line is taken from the backend, no further
\* fragment is yielded, and the streamed response and the HTTP client are
\* closed.
C24_CancellationStopsStream ==
    StreamCancelled =>
        /\ ad_pc = "done"
        /\ ad_seen = ad_cancel[1].seen
        /\ ad_out = ad_cancel[1].out
        /\ ~ad_open
        /\ ~ad_returned

\* The client went away after a fragment, with a line still to come.
C24_Witness ==
    /\ StreamCancelled
    /\ Len(ad_out) >= 1
    /\ ad_lines # <<>>
    /\ ContentOf(Head(ad_lines)) # <<>>
    /\ ~ad_open

(***************************************************************************)
(* Termination of chat_stream. The calls are those of SpecAdapter with     *)
(* short streams; a caller may call again once a call is over. The event   *)
(* loop resumes a coroutine that is ready, the consumer keeps asking for   *)
(* the next fragment, and the backend answers and goes on to the end of    *)
(* its stream: the steps of a call are weakly fair. Nothing forces a       *)
(* disconnect, a connection failure or another call.                       *)
(***************************************************************************)
LiveMaxLines == 2
LiveCalls ==
    {call \in AdInputs : call.op = "chat_stream" /\ Len(call.lines) <= LiveMaxLines}

AdLiveInit ==
    /\ enabled = FALSE
    /\ clock = Epoch
    /\ buckets = <<>>
    /\ last_cleanup_ts = 0
    /\ admitted = [k \in Keys |-> <<>>]
    /\ denied_since = {}
    /\ last = NoAttempt
    /\ ConcIdle
    /\ GwIdle
    /\ StIdle
    /\ RegIdle
    /\ AuIdle
    /\ SsIdle
    /\ MainIdle
    /\ AdCallFrom(LiveCalls)
    /\ AdStart

\* What the backend may answer to a call that is made again.
MaxCalls == 2
RetryAnswers ==
    {AdCall("chat_stream", S_m1, 200, NotJsonBody, <<>>, lines) :
        lines \in {<<>>, <<Frame(TRUE, "hel")>>, <<Other(TRUE, "done")>>}}
    \cup {AdCall("chat_stream", S_m1, 503, NotJsonBody, <<>>, <<>>)}

\* The caller makes the same call again: a new generator, with its own
\* AsyncClient and its own POST (lines 291-297); nothing of the call before
\* is kept.
AdNewCall ==
    /\ ad_pc = "done"
    /\ ad_calls < MaxCalls
    /\ ad_calls' = ad_calls + 1
    /\ IF ad_provider = Compat
       THEN \E answer \in RetryAnswers :
               /\ ad_status' = answer.status
               /\ ad_body' = answer.body
               /\ ad_retry_after' = answer.retry_after
               /\ ad_lines' = answer.lines
       ELSE UNCHANGED <<ad_status, ad_body, ad_retry_after, ad_lines>>
    /\ ad_pc' = "call"
    /\ ad_seen' = <<>>
    /\ ad_out' = <<>>
    /\ ad_exc' = NoAdExc
    /\ ad_returned' = FALSE
    /\ ad_conn' = FALSE
    /\ ad_headers' = <<>>
    /\ ad_resp' = <<>>
    /\ ad_open' = FALSE
    /\ ad_cancel' = <<>>
    /\ UNCHANGED <<rlVars, concVars, gwVars, stVars, regVars, auVars, ssVars, mainVars,
                   ad_provider, ad_op, ad_model, ad_data, ad_auth, ad_env_key>>

AdLiveNext ==
    \/ AdSend
    \/ AdClassify
    \/ AdLine
    \/ AdEnd
    \/ AdConnectionError
    \/ AdCancel
    \/ AdStubCall
    \/ AdStubYield
    \/ AdStubReturn
    \/ AdNewCall

AdProgress ==
    \/ AdSend
    \/ AdClassify
    \/ AdLine
    \/ AdEnd
    \/ AdStubCall
    \/ AdStubYield
    \/ AdStubReturn

FairSpecAdapter == AdLiveInit /\ [][AdLiveNext]_vars /\ WF_vars(AdProgress)

CallOver == ad_pc = "done"
FreshCall ==
    /\ ad_pc' = "call"
    /\ ad_seen' = <<>>
    /\ ad_out' = <<>>
    /\ ad_headers' = <<>>
    /\ ~ad_open'
    /\ ~ad_returned'

StubAnswered == gw_pc = "sent" /\ InLog("resolve:registry") /\ Invoked

\* C28: a valid request served by the stub backend is answered, on POST
\* /proxy, 200 with exactly one choice, of role assistant, and usage counters
\* all zero; on POST /proxy/stream, 200 with the events `data: stub `,
\* `data: response` and `data: [DONE]`, in that order and nothing else, so
\* with no error event.
C28_StubEndToEnd ==
    StubAnswered =>
        /\ gw_provider = "StubProvider"
        /\ gw_resp.status = 200
        /\ gw_http.path = "/proxy"
              => /\ gw_resp.chat # <<>>
                 /\ Len(gw_resp.chat[1].choices) = 1
                 /\ gw_resp.chat[1].choices[1].role = "assistant"
                 /\ gw_resp.chat[1].usage.prompt_tokens = 0
                 /\ gw_resp.chat[1].usage.completion_tokens = 0
                 /\ gw_resp.chat[1].usage.total_tokens = 0
        /\ gw_http.path = "/proxy/stream"
              => gw_resp.events = << <<"data: ", "stub ", "\n\n">>,
                                     <<"data: ", "response", "\n\n">>,
                                     <<"data: ", "[DONE]", "\n\n">> >>

\* The stub has answered a streamed request.
C28_Witness ==
    /\ StubAnswered
    /\ gw_http.path = "/proxy/stream"
    /\ Len(gw_resp.events) = 3
    /\ gw_metrics # <<>>

(***************************************************************************)
(* The API-key gate (app/middleware/auth_api_key.py). Environment values   *)
(* and header values are <<>> when absent and <<text>> when present, a     *)
(* text being a sequence of characters.                                    *)
(***************************************************************************)
S_true == <<"t", "r", "u", "e">>
S_false == <<"f", "a", "l", "s", "e">>
S_yes == <<"y", "e", "s">>
S_k1 == <<"k", "1">>
S_k2 == <<"k", "2">>
S_k3 == <<"k", "3">>

\* os.getenv("API_KEY_AUTH_ENABLED", "false").lower() in {"1", "true", "yes"}
GateEnabled(env_enabled) ==
    Lower(Get(env_enabled, S_false)) \in {<<"1">>, S_true, S_yes}

\* _parse_keys, lines 6-9.
SeqRange(seq) == {seq[i] : i \in DOMAIN seq}
ParseKeys(raw) ==
    IF raw = <<>> \/ raw[1] = <<>>
    THEN {}
    ELSE {Strip(k) : k \in {p \in SeqRange(Split(raw[1], ",")) : Strip(p) # <<>>}}

\* Line 21: whether the request is refused.
Refused(provided_key, allowed_keys) ==
    ~Truthy(provided_key)
    \/ (allowed_keys # {} /\ provided_key[1] \notin allowed_keys)

NoAuResp == [status |-> 0, x_request_id |-> None, www_authenticate |-> None,
             body |-> None]
\* Lines 23-33: the id is request.state.request_id, else the inbound
\* x-request-id, else a uuid4.
Unauthorized401(req) ==
    [status |-> 401,
     x_request_id |-> IF req.state_request_id # None /\ req.state_request_id # ""
                      THEN req.state_request_id
                      ELSE IF req.x_request_id # None /\ req.x_request_id # ""
                      THEN req.x_request_id
                      ELSE "uuid4-1",
     www_authenticate |-> "X-API-Key",
     body |-> "{\"error\":\"Unauthorized\"}"]

EnabledInputs ==
    {<<>>, <<<<>>>>, <<S_true>>, <<<<"T", "r", "u", "e">>>>, <<<<"1">>>>, <<S_yes>>,
     <<S_false>>, <<<<"o", "n">>>>}
ApiKeysInputs ==
    {<<>>, <<<<>>>>, <<<<",">>>>, <<S_k1 \o <<",">> \o S_k2>>,
     <<<<" ">> \o S_k1 \o <<" ", ",", " ", ",">> \o S_k2>>}
ProvidedKeyInputs == {<<>>, <<<<>>>>, <<S_k1>>, <<S_k2>>, <<S_k3>>, <<<<" ">> \o S_k1>>}
AuRequests ==
    [x_api_key : ProvidedKeyInputs, x_request_id : {None, "rid-1"},
     state_request_id : {None, "rid-s"}]

AuInit ==
    /\ enabled = FALSE
    /\ clock = Epoch
    /\ buckets = <<>>
    /\ last_cleanup_ts = 0
    /\ admitted = [k \in Keys |-> <<>>]
    /\ denied_since = {}
    /\ last = NoAttempt
    /\ ConcIdle
    /\ GwIdle
    /\ StIdle
    /\ RegIdle
    /\ AdIdle
    /\ SsIdle
    /\ MainIdle
    /\ au_pc = "start"
    /\ au_env \in [API_KEY_AUTH_ENABLED : EnabledInputs, API_KEYS : ApiKeysInputs]
    /\ au_req \in AuRequests
    /\ au_resp = NoAuResp
    /\ au_called = FALSE

AuFrame ==
    UNCHANGED <<rlVars, concVars, gwVars, stVars, regVars, adVars, ssVars, mainVars, au_env, au_req>>

\* api_key_auth_middleware, lines 12-35.
ApiKeyAuth ==
    /\ au_pc = "start"
    /\ IF ~GateEnabled(au_env.API_KEY_AUTH_ENABLED)
       THEN /\ au_called' = TRUE
            /\ au_pc' = "inner"
            /\ UNCHANGED au_resp
       ELSE IF Refused(au_req.x_api_key, ParseKeys(au_env.API_KEYS))
       THEN /\ au_resp' = Unauthorized401(au_req)
            /\ au_pc' = "sent"
            /\ UNCHANGED au_called
       ELSE /\ au_called' = TRUE
            /\ au_pc' = "inner"
            /\ UNCHANGED au_resp
    /\ AuFrame

\* call_next(request): the inner handlers answer.
AuCallNext ==
    /\ au_pc = "inner"
    /\ au_resp' = [NoAuResp EXCEPT !.status = 200]
    /\ au_pc' = "sent"
    /\ UNCHANGED au_called
    /\ AuFrame

AuNext ==
    \/ ApiKeyAuth
    \/ AuCallNext

SpecAuth == AuInit /\ [][AuNext]_vars

ConfiguredKeys == ParseKeys(au_env.API_KEYS)
CarriesConfiguredKey ==
    au_req.x_api_key # <<>> /\ au_req.x_api_key[1] \in ConfiguredKeys

\* C30: with API-key authentication enabled, a request reaches the inner
\* handlers only if its X-API-Key is one of the configured keys; every other
\* request is answered 401 with an x-request-id header and WWW-Authenticate:
\* X-API-Key, the inner handlers not being called. With authentication
\* disabled every request reaches the inner handlers.
C30_ApiKeyGate ==
    au_pc # "start" =>
        IF GateEnabled(au_env.API_KEY_AUTH_ENABLED)
        THEN /\ au_called <=> CarriesConfiguredKey
             /\ ~CarriesConfiguredKey
                   => /\ au_resp.status = 401
                      /\ au_resp.x_request_id # None
                      /\ au_resp.www_authenticate = "X-API-Key"
        ELSE au_called

(***************************************************************************)
(* parse_model_provider_map and resolve_provider_name_for_model called on  *)
(* their own, as the tests of the registry call them: a configuration text *)
(* of up to MaxParts parts is parsed, and model names are resolved against *)
(* the mapping that came back.                                             *)
(***************************************************************************)
MaxParts == 3
MapEntryInputs ==
    {[text |-> <<"g", "*", "=", "b">>, key |-> <<"g", "*">>, provider |-> <<"b">>],
     [text |-> <<"*", "=", "c">>, key |-> <<"*">>, provider |-> <<"c">>],
     [text |-> <<" ", "g", "*", "=", " ", "D">>, key |-> <<"g", "*">>, provider |-> <<"d">>],
     [text |-> <<"g", "4", "*", "=", "e">>, key |-> <<"g", "4", "*">>, provider |-> <<"e">>],
     [text |-> <<" ", "g", "4", " ", "=", " ", "V", "L", "L", "M", " ">>, key |-> <<"g", "4">>, provider |-> S_vllm],
     [text |-> <<"=", "x">>, key |-> <<>>, provider |-> <<"x">>],
     [text |-> <<"b", "a", "d">>, key |-> NoKey, provider |-> <<>>],
     [text |-> <<" ">>, key |-> NoKey, provider |-> <<>>]}
MapEntryLists == UNION {[1 .. len -> MapEntryInputs] : len \in 0 .. MaxParts}
MapDefaults == {<<>>, <<<<"z">>>>}
MapResolves == 2

MapInit ==
    /\ enabled = FALSE
    /\ clock = Epoch
    /\ buckets = <<>>
    /\ last_cleanup_ts = 0
    /\ admitted = [k \in Keys |-> <<>>]
    /\ denied_since = {}
    /\ last = NoAttempt
    /\ ConcIdle
    /\ GwIdle
    /\ StIdle
    /\ AdIdle
    /\ AuIdle
    /\ SsIdle
    /\ MainIdle
    /\ reg_entries \in MapEntryLists
    /\ reg_map = JoinEntries(reg_entries)
    /\ reg_default \in MapDefaults
    /\ reg_cache = {}
    /\ reg_built = <<>>
    /\ reg_pend = <<>>
    /\ reg_mid = 0
    /\ reg_done = 0
    /\ reg_last = <<>>
    /\ reg_returned = {}
    /\ reg_parsed = <<>>

MapFrame ==
    UNCHANGED <<rlVars, concVars, gwVars, stVars, adVars, auVars, ssVars, mainVars, reg_entries, reg_map,
                reg_default, reg_cache, reg_built, reg_pend, reg_mid, reg_returned>>

\* parse_model_provider_map(raw), lines 10-22.
MapParse ==
    /\ reg_parsed = <<>>
    /\ reg_parsed' = <<parse_model_provider_map(reg_map)>>
    /\ UNCHANGED <<reg_done, reg_last>>
    /\ MapFrame

\* resolve_provider_name_for_model(model, mapping), lines 25-36.
MapResolve(model) ==
    /\ reg_parsed # <<>>
    /\ reg_done < MapResolves
    /\ reg_last' = <<[model |-> model,
                      provider_name |->
                          resolve_provider_name_for_model(model, reg_parsed[1], reg_default)]>>
    /\ reg_done' = reg_done + 1
    /\ UNCHANGED reg_parsed
    /\ MapFrame

MapNext ==
    \/ MapParse
    \/ \E model \in RegModels : MapResolve(model)

SpecMap == MapInit /\ [][MapNext]_vars

\* The matching patterns of the configuration text, by the part they stand in.
FirstMatching(model) == FirstOf(WildcardEntries(model))
SamePattern(i) == {j \in DOMAIN reg_entries : reg_entries[j].key = reg_entries[i].key}
LaterLonger(model) ==
    \E j \in WildcardEntries(model) :
        /\ j > FirstMatching(model)
        /\ Len(reg_entries[j].key) > Len(reg_entries[FirstMatching(model)].key)

IsEntry(e) == e.key # NoKey
Item(e) == [key |-> e.key, provider |-> e.provider]
EntryParts == SelectSeq(reg_entries, IsEntry)
FirstOccurrences ==
    {i \in DOMAIN EntryParts : \A j \in 1 .. i - 1 : EntryParts[j].key # EntryParts[i].key}
LastOccurrence(i) ==
    LastOf({j \in DOMAIN EntryParts : EntryParts[j].key = EntryParts[i].key})
Nth(S, n) == CHOOSE i \in S : Cardinality({j \in S : j < i}) = n - 1

\* C32 as stated: the parsed mapping has exactly one entry per part that
\* contains "=" and is not blank, with the key trimmed and the provider name
\* trimmed and lower-cased, in the order of the text.
C32_OneEntryPerPart ==
    reg_parsed # <<>>
    => /\ Len(reg_parsed[1]) = Len(EntryParts)
       /\ \A i \in DOMAIN EntryParts : reg_parsed[1][i] = Item(EntryParts[i])

\* C32, amended: for every configuration text the parsed mapping has exactly one
\* entry per distinct trimmed key among the parts that contain "=" and are
\* not blank, in the order in which the keys first stand in the text, each
\* with the trimmed, lower-cased provider name of the last part that has the
\* key; the other parts contribute nothing.
C32_OneEntryPerKey ==
    reg_parsed # <<>>
    => /\ Len(reg_parsed[1]) = Cardinality(FirstOccurrences)
       /\ \A n \in DOMAIN reg_parsed[1] :
             LET i == Nth(FirstOccurrences, n)
             IN  /\ reg_parsed[1][n].key = EntryParts[i].key
                 /\ reg_parsed[1][n].provider = EntryParts[LastOccurrence(i)].provider

\* "g*=b,bad, g*= D" has been parsed: one entry, g* with d.
C32_Witness ==
    /\ reg_parsed = <<<<[key |-> <<"g", "*">>, provider |-> <<"d">>]>>>>
    /\ Len(reg_entries) = 3
    /\ reg_entries[1].text = <<"g", "*", "=", "b">>
    /\ reg_entries[2].text = <<"b", "a", "d">>
    /\ reg_entries[3].text = <<" ", "g", "*", "=", " ", "D">>

(***************************************************************************)
(* The classification of chat against that of chat_stream.                 *)
(***************************************************************************)
KindOf(type) == IF type \in OpaqueFailures THEN "opaque" ELSE type
ErrorStatus == ad_status < 200 \/ ad_status > 299
CallClassified(op) ==
    /\ ad_provider = Compat
    /\ ad_op = op
    /\ ad_pc = "done"
    /\ ~ad_conn
    /\ ad_cancel = <<>>
    /\ ErrorStatus

\* C33: for every backend status and body, chat_stream raises an error of the
\* same kind (Unauthorized, Forbidden, RateLimited with the same retry_after,
\* ModelNotFound, or opaque) as chat raises for that status and body, and
\* chat raises the kind chat_stream raises; chat_stream raises it before it
\* has taken a line of the body or yielded a fragment.
C33_StreamClassifiesAsChat ==
    /\ CallClassified("chat_stream")
          => LET chat == ClassifyChat(ad_status, ad_body, ad_retry_after, ad_model)
             IN  /\ KindOf(ad_exc.type) = KindOf(chat.type)
                 /\ ad_exc.retry_after = chat.retry_after
                 /\ ad_seen = <<>>
                 /\ ad_out = <<>>
                 /\ ~ad_returned
    /\ CallClassified("chat")
          => LET stream == ClassifyStream(ad_status, ad_body, ad_retry_after, ad_model)
             IN  /\ KindOf(ad_exc.type) = KindOf(stream.type)
                 /\ ad_exc.retry_after = stream.retry_after

(***************************************************************************)
(* The sentinel of the backend's stream.                                   *)
(***************************************************************************)
SentinelRead ==
    /\ ad_provider = Compat
    /\ ad_op = "chat_stream"
    /\ \E i \in DOMAIN ad_seen : IsSentinel(ad_seen[i])

\* C34: once chat_stream has read a line that is [DONE], with the "data: "
\* prefix or without it, the call is over, by returning and with the
\* response closed, and from then on no line is taken from the backend and
\* no fragment is yielded, whatever lines the backend still has.
C34_SentinelTerminates ==
    /\ [](SentinelRead => (ad_pc = "done" /\ ad_returned /\ ~ad_open
                           /\ IsSentinel(ad_seen[Len(ad_seen)])))
    /\ [][SentinelRead => UNCHANGED <<ad_seen, ad_out, ad_lines>>]_vars

\* A [DONE] without prefix has been read after a fragment, and the backend
\* has a content frame still to send.
C34_Witness ==
    /\ SentinelRead
    /\ ~ad_seen[Len(ad_seen)].prefix
    /\ Len(ad_out) = 1
    /\ ad_lines # <<>>
    /\ ContentOf(Head(ad_lines)) # <<>>

(***************************************************************************)
(* Streamed responses in flight together (app/routers/proxy.py, lines      *)
(* 115-169). Each request gets its own StreamingResponse over its own      *)
(* event_gen, whose locals (the provider's generator, outcome, start) are  *)
(* its own; the event loop interleaves the generators at their yields and  *)
(* awaits. The counters of app/metrics.py are shared.                      *)
(***************************************************************************)
StreamIds == {1, 2}
FragmentsOf(s) == IF s = 1 THEN {"a", "b"} ELSE {"c", "[DONE]"}
RidOf(s) == IF s = 1 THEN "rid-1" ELSE "rid-2"
NewStream(s) ==
    [pc |-> "created", rid |-> RidOf(s), frags |-> <<>>, end |-> <<>>,
     pending |-> <<>>, events |-> <<>>, outcome |-> None]

\* The generator whose pending event the response of request s sends: its own.
GeneratorOfFirst(s) == 1
GeneratorOf(s) == s

SsInit ==
    /\ enabled = FALSE
    /\ clock = Epoch
    /\ buckets = <<>>
    /\ last_cleanup_ts = 0
    /\ admitted = [k \in Keys |-> <<>>]
    /\ denied_since = {}
    /\ last = NoAttempt
    /\ ConcIdle
    /\ GwIdle
    /\ StIdle
    /\ RegIdle
    /\ AdIdle
    /\ AuIdle
    /\ MainIdle
    /\ ss_streams = [s \in StreamIds |-> NewStream(s)]
    /\ ss_metrics = <<>>

SsFrame ==
    UNCHANGED <<rlVars, concVars, gwVars, stVars, regVars, adVars, auVars, mainVars>>

\* The response of request s starts and asks event_gen for its first event
\* (lines 138-141, 169).
SsBegin(s) ==
    /\ ss_streams[s].pc = "created"
    /\ ss_streams' = [ss_streams EXCEPT ![s].pc = "pulling", ![s].outcome = "success"]
    /\ UNCHANGED ss_metrics
    /\ SsFrame

\* chat_stream of request s yields a fragment (lines 141-142).
SsProviderYield(s, chunk) ==
    /\ ss_streams[s].pc = "pulling"
    /\ Len(ss_streams[s].frags) < MaxFrags
    /\ ss_streams' = [ss_streams EXCEPT ![s].frags = Append(@, chunk),
                                        ![s].pending = <<DataEvent(chunk)>>,
                                        ![s].pc = "yield_chunk"]
    /\ UNCHANGED ss_metrics
    /\ SsFrame

\* chat_stream of request s is exhausted (line 143).
SsProviderEnd(s) ==
    /\ ss_streams[s].pc = "pulling"
    /\ ss_streams' = [ss_streams EXCEPT ![s].end = <<"end">>,
                                        ![s].pending = <<DoneEvent>>,
                                        ![s].pc = "yield_tail"]
    /\ UNCHANGED ss_metrics
    /\ SsFrame

\* chat_stream of request s raises an Exception (lines 144-158).
SsProviderRaise(s, message) ==
    /\ ss_streams[s].pc = "pulling"
    /\ ss_streams' = [ss_streams EXCEPT ![s].end = <<"raise", message>>,
                                        ![s].outcome = "error",
                                        ![s].pending =
                                            ErrorBranchEvents(message, ss_streams[s].rid),
                                        ![s].pc = "yield_tail"]
    /\ UNCHANGED ss_metrics
    /\ SsFrame

\* The response of request s sends the event its generator yielded and
\* resumes the generator (lines 142-143, 158-167).
SsResume(s) ==
    LET g == GeneratorOf(s)
    IN  /\ ss_streams[s].pc \in {"yield_chunk", "yield_tail"}
        /\ ss_streams[g].pending # <<>>
        /\ LET sent == [ss_streams EXCEPT ![s].events = Append(@, Head(ss_streams[g].pending))]
               rest == Tail(ss_streams[g].pending)
               over == ss_streams[s].pc = "yield_tail" /\ rest = <<>>
           IN  /\ ss_streams' =
                     [[sent EXCEPT ![g].pending = rest]
                         EXCEPT ![s].pc = IF ss_streams[s].pc = "yield_chunk" THEN "pulling"
                                          ELSE IF over THEN "finished"
                                          ELSE "yield_tail"]
               /\ ss_metrics' = IF over THEN Append(ss_metrics, ss_streams[s].outcome)
                                ELSE ss_metrics
        /\ SsFrame

\* The client of request s goes away; only the finally block runs (lines
\* 160-167).
SsDisconnect(s) ==
    /\ ss_streams[s].pc \in {"pulling", "yield_chunk", "yield_tail"}
    /\ ss_streams' = [ss_streams EXCEPT ![s].end = IF @ = <<>> THEN <<"cancelled">> ELSE @,
                                        ![s].pending = <<>>,
                                        ![s].pc = "aborted"]
    /\ ss_metrics' = Append(ss_metrics, ss_streams[s].outcome)
    /\ SsFrame

SsNext ==
    \/ \E s \in StreamIds : SsBegin(s)
    \/ \E s \in StreamIds : \E chunk \in FragmentsOf(s) : SsProviderYield(s, chunk)
    \/ \E s \in StreamIds : SsProviderEnd(s)
    \/ \E s \in StreamIds : \E message \in ExcMessages : SsProviderRaise(s, message)
    \/ \E s \in StreamIds : SsResume(s)
    \/ \E s \in StreamIds : SsDisconnect(s)

SpecStreams == SsInit /\ [][SsNext]_vars

IsPrefix(a, b) == Len(a) <= Len(b) /\ a = SubSeq(b, 1, Len(a))
TailEvents(st) ==
    IF st.end # <<>> /\ st.end[1] = "raise" THEN ErrorBranchEvents(st.end[2], st.rid)
    ELSE IF st.end # <<>> /\ st.end[1] = "end" THEN <<DoneEvent>>
    ELSE <<>>
EventsInOrder(st) ==
    /\ IsPrefix(st.events, Framed(st.frags) \o TailEvents(st))
    /\ st.pc = "pulling" => st.events = Framed(st.frags)
    /\ st.pc = "yield_chunk" => Len(st.events) = Len(st.frags) - 1
    /\ st.pc = "yield_tail" => Len(st.events) >= Len(st.frags)
    /\ st.pc = "finished" => st.events = Framed(st.frags) \o TailEvents(st)
\* What only another response can hold: the events of its fragments (the
\* fragment that reads like the terminal marker apart) and of its failure.
EventsOfOthers(s) ==
    ({DataEvent(chunk) : chunk \in UNION {FragmentsOf(t) : t \in StreamIds \ {s}}}
        \ {DoneEvent})
    \cup {ErrorEvent(m, RidOf(t)) : m \in ExcMessages, t \in StreamIds \ {s}}

\* C35: in every response, the events sent are the provider's fragments
\* framed as "data: <fragment>\n\n", one event per fragment, in the order of
\* the fragments, with none missing, repeated or out of place, at most the
\* last yielded fragment being still on its way; the error event of a
\* failure comes after the events of all fragments yielded before it; and
\* with several responses in flight no response holds an event of another's
\* fragments or failure.
C35_FramingAndOrder ==
    \A s \in DOMAIN ss_streams :
        /\ EventsInOrder(ss_streams[s])
        /\ \A i \in DOMAIN ss_streams[s].events :
              ss_streams[s].events[i] \notin EventsOfOthers(s)

\* Two responses in flight: the first has sent a fragment and the error event
\* of a failure after it, the second has sent a fragment and holds another.
C35_Witness ==
    /\ ss_streams # <<>>
    /\ ss_streams[1].pc = "yield_tail"
    /\ ss_streams[1].end = <<"raise", "boom">>
    /\ ss_streams[1].events = <<DataEvent("a"), ErrorEvent("boom", "rid-1")>>
    /\ ss_streams[2].pc = "yield_chunk"
    /\ ss_streams[2].events = <<DataEvent("c")>>
    /\ ss_streams[2].frags = <<"c", "[DONE]">>

(***************************************************************************)
(* The release of the backend connection.                                  *)
(***************************************************************************)
CallDone == ad_pc = "done"
ExitPath ==
    IF ad_cancel # <<>> THEN "cancelled"
    ELSE IF ad_returned THEN "returned"
    ELSE IF ad_exc.type \in TypedErrors THEN "typed"
    ELSE IF ad_out # <<>> THEN "mid_stream"
    ELSE "opaque"

\* C36: the HTTP client (and the streamed response) of a call of chat or
\* chat_stream is open only while the call is in progress; when the call is
\* over, by a successful return, a typed provider error, an opaque error, an
\* exception in the middle of the stream or the consumer's cancellation, it
\* is closed; the stub opens none.
C36_ConnectionsReleased ==
    /\ CallDone => ~ad_open
    /\ ad_open => (ad_provider = Compat /\ ad_pc \in {"status", "lines"})

\* A stream failed on a frame after it had yielded a fragment, with lines
\* still to come, and its connection is closed.
C36_Witness ==
    /\ CallDone
    /\ ad_provider = Compat
    /\ ad_op = "chat_stream"
    /\ ExitPath = "mid_stream"
    /\ ~ad_conn
    /\ ad_lines # <<>>
    /\ ~ad_open

(***************************************************************************)
(* The limiter with the periodic sweep (app/middleware/rate_limit.py) and  *)
(* the limiter without one (rate_limit_middleware of app/main.py), each    *)
(* with its own buckets, given the same requests at the same clock values. *)
(***************************************************************************)
SweepInit ==
    /\ enabled = TRUE
    /\ clock = Epoch
    /\ buckets = <<>>
    /\ last_cleanup_ts = 0
    /\ admitted = [k \in Keys |-> <<>>]
    /\ denied_since = {}
    /\ last = NoAttempt
    /\ ConcIdle
    /\ GwIdle
    /\ StIdle
    /\ RegIdle
    /\ AdIdle
    /\ AuIdle
    /\ SsIdle
    /\ main_buckets = <<>>
    /\ main_status = 0

\* The request is answered by both limiters at the present clock value.
AttemptBoth(req) ==
    /\ AttemptRL(req)
    /\ LET m == MainRateLimit(main_buckets, clock, req)
       IN  /\ main_buckets' = m.buckets
           /\ main_status' = m.status
    /\ UNCHANGED <<concVars, gwVars, stVars, regVars, adVars, auVars, ssVars>>

\* Time passes for both.
SweepTick ==
    /\ clock < Epoch + MaxTicks
    /\ clock' = clock + 1
    /\ admitted' = [k \in Keys |->
                       SelectSeq(admitted[k],
                                 LAMBDA t : t >= clock' - RATE_LIMIT_WINDOW_SECONDS)]
    /\ last' = NoAttempt
    /\ main_status' = 0
    /\ UNCHANGED <<enabled, buckets, last_cleanup_ts, denied_since, main_buckets>>
    /\ UNCHANGED <<concVars, gwVars, stVars, regVars, adVars, auVars, ssVars>>

SweepNext ==
    \/ SweepTick
    \/ \E req \in RLRequests : AttemptBoth(req)

SpecSweep == SweepInit /\ [][SweepNext]_vars

BothAnswered == last.key # None /\ main_status # 0
HoldsInWindow(bk, k) == k \in DOMAIN bk /\ InWindow(bk[k], clock) # <<>>

\* C37: at every attempt the limiter that sweeps and the limiter that never
\* sweeps answer alike, both admitting or both denying; the timestamps of a
\* key that are in the window are the same in both (the sweep has removed
\* only timestamps the prune of a later call removes as well), and a key that
\* holds a timestamp in the window is still a key of the swept buckets.
C37_SweepTransparent ==
    /\ BothAnswered => last.status = main_status
    /\ \A k \in DOMAIN main_buckets :
          /\ InWindow(main_buckets[k], clock) = InWindow(BucketOf(buckets, k), clock)
          /\ HoldsInWindow(main_buckets, k) => HoldsInWindow(buckets, k)

\* Both limiters have just denied a request, after the sweep ran a second
\* time and dropped a key the other limiter still keeps, with expired
\* timestamps only.
C37_Witness ==
    /\ BothAnswered
    /\ last.status = 429
    /\ main_status = 429
    /\ last_cleanup_ts >= Epoch + CLEANUP_INTERVAL_SECONDS
    /\ \E k \in DOMAIN main_buckets : k \notin DOMAIN buckets /\ main_buckets[k] # <<>>

(***************************************************************************)
(* Validation applied to its own result, checked under SpecGW.             *)
(***************************************************************************)
Accepted == InLog("validate:ok")
Normalized(msg) == [role |-> NormRole(msg.role), content |-> NormContent(msg.content)]

\* C38: a request that _validate_request has accepted is accepted again when
\* it is validated as it stands after the first validation, and the second
\* validation leaves it as it is: the role and content of every message, the
\* model and every sampling parameter. Validation, whether it accepts or
\* rejects, leaves the number and the order of the messages: each message is
\* the original at its place, rewritten or not.
C38_ValidationIdempotent ==
    /\ Accepted
          => /\ ValidateRequest(gw_req).detail = NoDetail
             /\ ValidateRequest(gw_req).request = gw_req
    /\ Validated
          => /\ Len(gw_req.messages) = Len(gw_http.body.messages)
             /\ \A i \in DOMAIN gw_req.messages :
                   gw_req.messages[i] \in {gw_http.body.messages[i],
                                           Normalized(gw_http.body.messages[i])}
             /\ gw_req.model = gw_http.body.model

\* A request with padded, mixed-case text has been accepted and rewritten,
\* its padded model name kept.
C38_Witness ==
    /\ Accepted
    /\ gw_http.body.model = <<" ", "m", " ">>
    /\ gw_http.body.messages = <<[role |-> <<" ", "U", "s", "e", "r", " ">>,
                                  content |-> <<" ", "H", "i", " ">>]>>
    /\ gw_req.messages = <<[role |-> S_user, content |-> <<"H", "i">>]>>
    /\ gw_req.model = <<" ", "m", " ">>

====
